---- MODULE Spec2Model ----
(***************************************************************************)
(* LeftTurn agent gateway: routing of a query to one of three backends     *)
(* (parameterised read-only SQL, document search, directory search), the   *)
(* SQL guardrails, and the bounded retry policy of the three clients.      *)
(*                                                                         *)
(* Python strings are modelled as sequences of one-character strings, so   *)
(* that substring tests, prefix tests and the regular expressions of the   *)
(* source are computed character by character.                             *)
(***************************************************************************)
EXTENDS Integers, Sequences, FiniteSets, TLC

(***************************************************************************)
(* Characters and the str methods the source uses.                         *)
(***************************************************************************)
UpperLetters == <<"A","B","C","D","E","F","G","H","I","J","K","L","M",
                  "N","O","P","Q","R","S","T","U","V","W","X","Y","Z">>

LowerLetters == <<"a","b","c","d","e","f","g","h","i","j","k","l","m",
                  "n","o","p","q","r","s","t","u","v","w","x","y","z">>

Digits == <<"0","1","2","3","4","5","6","7","8","9">>

Range(s) == {s[i] : i \in DOMAIN s}

UpperSet == Range(UpperLetters)

LetterSet == UpperSet \cup Range(LowerLetters)

\* \w of the re module (ASCII part): letters, digits, underscore
WordChars == LetterSet \cup Range(Digits) \cup {"_"}

\* \s of the re module and the characters str.lstrip() removes
SpaceChars == {" ", "\t", "\n", "\r", "\f"}

LowerChar(c) ==
  IF c \in UpperSet
    THEN LowerLetters[CHOOSE i \in DOMAIN UpperLetters : UpperLetters[i] = c]
    ELSE c

\* str.lower()
Lower(s) == [i \in DOMAIN s |-> LowerChar(s[i])]

\* s[i:] with a 1-based i
Drop(s, i) == SubSeq(s, i, Len(s))

\* s.startswith(k)
StartsWith(s, k) == Len(k) <= Len(s) /\ SubSeq(s, 1, Len(k)) = k

\* does k occur in s at the 1-based position i
OccursAt(s, k, i) == i >= 1 /\ i + Len(k) - 1 <= Len(s) /\ SubSeq(s, i, i + Len(k) - 1) = k

\* k in s
Contains(s, k) == \E i \in 1..(Len(s) + 1) : OccursAt(s, k, i)

\* s.find(k): the 1-based position of the first occurrence, 0 when there is none
Find(s, k) ==
  IF Contains(s, k)
    THEN CHOOSE i \in 1..(Len(s) + 1) :
           OccursAt(s, k, i) /\ \A j \in 1..(i - 1) : ~OccursAt(s, k, j)
    ELSE 0

\* the position after the longest run of characters of the set cs that starts
\* at position i of s
RunEnd(s, i, cs) ==
  CHOOSE j \in i..(Len(s) + 1) :
    /\ j = Len(s) + 1 \/ s[j] \notin cs
    /\ \A k \in i..(j - 1) : s[k] \in cs

\* s.lstrip()
LStrip(s) == Drop(s, RunEnd(s, 1, SpaceChars))

\* concatenation of a sequence of strings
RECURSIVE Concat(_)
Concat(ss) == IF ss = <<>> THEN <<>> ELSE Head(ss) \o Concat(Tail(ss))

(***************************************************************************)
(* services/sql_templates.py: the approved templates.                      *)
(***************************************************************************)
T_variance_summary ==
  <<"\n","S","E","L","E","C","T","\n"," "," ","C","a","r","r","i","e","r"," ","A","S"," ","c",
    "a","r","r","i","e","r",",","\n"," "," ","S","U","M","(","V","a","r","i","a","n","c","e",
    ")"," ","A","S"," ","v","a","r","i","a","n","c","e","\n","F","R","O","M"," ","v","w","_",
    "V","a","r","i","a","n","c","e","\n","W","H","E","R","E"," ","S","h","i","p","D","a","t",
    "e"," ","B","E","T","W","E","E","N"," ","@","f","r","o","m"," ","A","N","D"," ","@","t","o",
    "\n","G","R","O","U","P"," ","B","Y"," ","C","a","r","r","i","e","r","\n","O","R","D","E",
    "R"," ","B","Y"," ","v","a","r","i","a","n","c","e"," ","D","E","S","C","\n">>

T_variance_by_service ==
  <<"\n","S","E","L","E","C","T","\n"," "," ","S","e","r","v","i","c","e","L","e","v","e","l",
    ",","\n"," "," ","S","U","M","(","V","a","r","i","a","n","c","e",")"," ","A","S"," ","v",
    "a","r","i","a","n","c","e","\n","F","R","O","M"," ","v","w","_","V","a","r","i","a","n",
    "c","e","\n","W","H","E","R","E"," ","S","h","i","p","D","a","t","e"," ","B","E","T","W",
    "E","E","N"," ","@","f","r","o","m"," ","A","N","D"," ","@","t","o","\n"," "," ","A","N",
    "D"," ","(","@","c","a","r","r","i","e","r"," ","I","S"," ","N","U","L","L"," ","O","R"," ",
    "C","a","r","r","i","e","r"," ","="," ","@","c","a","r","r","i","e","r",")","\n","G","R",
    "O","U","P"," ","B","Y"," ","S","e","r","v","i","c","e","L","e","v","e","l","\n","O","R",
    "D","E","R"," ","B","Y"," ","v","a","r","i","a","n","c","e"," ","D","E","S","C","\n">>

T_variance_by_sku ==
  <<"\n","S","E","L","E","C","T","\n"," "," ","S","K","U",",","\n"," "," ","S","U","M","(","V",
    "a","r","i","a","n","c","e",")"," ","A","S"," ","v","a","r","i","a","n","c","e","\n","F",
    "R","O","M"," ","v","w","_","V","a","r","i","a","n","c","e","\n","W","H","E","R","E"," ",
    "S","h","i","p","D","a","t","e"," ","B","E","T","W","E","E","N"," ","@","f","r","o","m"," ",
    "A","N","D"," ","@","t","o","\n"," "," ","A","N","D"," ","(","@","c","a","r","r","i","e",
    "r"," ","I","S"," ","N","U","L","L"," ","O","R"," ","C","a","r","r","i","e","r"," ","="," ",
    "@","c","a","r","r","i","e","r",")","\n","G","R","O","U","P"," ","B","Y"," ","S","K","U",
    "\n","O","R","D","E","R"," ","B","Y"," ","v","a","r","i","a","n","c","e"," ","D","E","S",
    "C","\n">>

T_variance_by_carrier_service ==
  <<"\n","S","E","L","E","C","T","\n"," "," ","C","a","r","r","i","e","r",",","\n"," "," ","S",
    "e","r","v","i","c","e","L","e","v","e","l",",","\n"," "," ","S","U","M","(","V","a","r",
    "i","a","n","c","e",")"," ","A","S"," ","v","a","r","i","a","n","c","e","\n","F","R","O",
    "M"," ","v","w","_","V","a","r","i","a","n","c","e","\n","W","H","E","R","E"," ","S","h",
    "i","p","D","a","t","e"," ","B","E","T","W","E","E","N"," ","@","f","r","o","m"," ","A","N",
    "D"," ","@","t","o","\n"," "," ","A","N","D"," ","(","@","c","a","r","r","i","e","r"," ",
    "I","S"," ","N","U","L","L"," ","O","R"," ","C","a","r","r","i","e","r"," ","="," ","@","c",
    "a","r","r","i","e","r",")","\n","G","R","O","U","P"," ","B","Y"," ","C","a","r","r","i",
    "e","r",","," ","S","e","r","v","i","c","e","L","e","v","e","l","\n","O","R","D","E","R",
    " ","B","Y"," ","v","a","r","i","a","n","c","e"," ","D","E","S","C","\n">>

T_on_time_rate ==
  <<"\n","S","E","L","E","C","T","\n"," "," ","C","A","S","E"," ","W","H","E","N"," ","C","O",
    "U","N","T","(","*",")"," ","="," ","0"," ","T","H","E","N"," ","0",".","0"," ","E","L","S",
    "E","\n"," "," "," "," ","C","A","S","T","(","S","U","M","(","C","A","S","E"," ","W","H",
    "E","N"," ","O","n","T","i","m","e"," ","="," ","1"," ","T","H","E","N"," ","1"," ","E","L",
    "S","E"," ","0"," ","E","N","D",")"," ","A","S"," ","F","L","O","A","T",")"," ","/"," ","C",
    "A","S","T","(","C","O","U","N","T","(","*",")"," ","A","S"," ","F","L","O","A","T",")",
    "\n"," "," ","E","N","D"," ","A","S"," ","o","n","_","t","i","m","e","_","r","a","t","e",
    "\n","F","R","O","M"," ","v","w","_","F","a","c","t","S","h","i","p","m","e","n","t","\n",
    "W","H","E","R","E"," ","S","h","i","p","D","a","t","e"," ","B","E","T","W","E","E","N"," ",
    "@","f","r","o","m"," ","A","N","D"," ","@","t","o","\n"," "," ","A","N","D"," ","(","@",
    "c","a","r","r","i","e","r"," ","I","S"," ","N","U","L","L"," ","O","R"," ","C","a","r","r",
    "i","e","r"," ","="," ","@","c","a","r","r","i","e","r",")","\n">>

T_variance_trend_by_carrier ==
  <<"\n","S","E","L","E","C","T","\n"," "," ","D","A","T","E","F","R","O","M","P","A","R","T",
    "S","(","Y","E","A","R","(","S","h","i","p","D","a","t","e",")",","," ","M","O","N","T","H",
    "(","S","h","i","p","D","a","t","e",")",","," ","1",")"," ","A","S"," ","M","o","n","t","h",
    ",","\n"," "," ","C","a","r","r","i","e","r",",","\n"," "," ","S","U","M","(","V","a","r",
    "i","a","n","c","e",")"," ","A","S"," ","v","a","r","i","a","n","c","e","\n","F","R","O",
    "M"," ","v","w","_","V","a","r","i","a","n","c","e","\n","W","H","E","R","E"," ","S","h",
    "i","p","D","a","t","e"," ","B","E","T","W","E","E","N"," ","@","f","r","o","m"," ","A","N",
    "D"," ","@","t","o","\n"," "," ","A","N","D"," ","(","@","c","a","r","r","i","e","r"," ",
    "I","S"," ","N","U","L","L"," ","O","R"," ","C","a","r","r","i","e","r"," ","="," ","@","c",
    "a","r","r","i","e","r",")","\n","G","R","O","U","P"," ","B","Y"," ","D","A","T","E","F",
    "R","O","M","P","A","R","T","S","(","Y","E","A","R","(","S","h","i","p","D","a","t","e",")",
    ","," ","M","O","N","T","H","(","S","h","i","p","D","a","t","e",")",","," ","1",")",","," ",
    "C","a","r","r","i","e","r","\n","O","R","D","E","R"," ","B","Y"," ","M","o","n","t","h",
    ","," ","C","a","r","r","i","e","r","\n">>

T_variance_trend_by_sku ==
  <<"\n","S","E","L","E","C","T","\n"," "," ","D","A","T","E","F","R","O","M","P","A","R","T",
    "S","(","Y","E","A","R","(","S","h","i","p","D","a","t","e",")",","," ","M","O","N","T","H",
    "(","S","h","i","p","D","a","t","e",")",","," ","1",")"," ","A","S"," ","M","o","n","t","h",
    ",","\n"," "," ","S","K","U",",","\n"," "," ","S","U","M","(","V","a","r","i","a","n","c",
    "e",")"," ","A","S"," ","v","a","r","i","a","n","c","e","\n","F","R","O","M"," ","v","w",
    "_","V","a","r","i","a","n","c","e","\n","W","H","E","R","E"," ","S","h","i","p","D","a",
    "t","e"," ","B","E","T","W","E","E","N"," ","@","f","r","o","m"," ","A","N","D"," ","@","t",
    "o","\n"," "," ","A","N","D"," ","(","@","c","a","r","r","i","e","r"," ","I","S"," ","N",
    "U","L","L"," ","O","R"," ","C","a","r","r","i","e","r"," ","="," ","@","c","a","r","r","i",
    "e","r",")","\n"," "," ","A","N","D"," ","(","@","s","k","u"," ","I","S"," ","N","U","L",
    "L"," ","O","R"," ","S","K","U"," ","="," ","@","s","k","u",")","\n","G","R","O","U","P",
    " ","B","Y"," ","D","A","T","E","F","R","O","M","P","A","R","T","S","(","Y","E","A","R","(",
    "S","h","i","p","D","a","t","e",")",","," ","M","O","N","T","H","(","S","h","i","p","D","a",
    "t","e",")",","," ","1",")",","," ","S","K","U","\n","O","R","D","E","R"," ","B","Y"," ",
    "M","o","n","t","h",","," ","S","K","U","\n">>

T_fuel_surcharge_series ==
  <<"\n","S","E","L","E","C","T","\n"," "," ","E","f","f","e","c","t","i","v","e","D","a","t",
    "e",",","\n"," "," ","P","e","r","c","e","n","t","\n","F","R","O","M"," ","v","w","_","F",
    "u","e","l","S","u","r","c","h","a","r","g","e","\n","W","H","E","R","E"," ","E","f","f",
    "e","c","t","i","v","e","D","a","t","e"," ","B","E","T","W","E","E","N"," ","@","f","r","o",
    "m"," ","A","N","D"," ","@","t","o","\n"," "," ","A","N","D"," ","(","@","c","a","r","r",
    "i","e","r"," ","I","S"," ","N","U","L","L"," ","O","R"," ","C","a","r","r","i","e","r"," ",
    "="," ","@","c","a","r","r","i","e","r",")","\n","O","R","D","E","R"," ","B","Y"," ","E",
    "f","f","e","c","t","i","v","e","D","a","t","e","\n">>

\* the registry with the on-time template registered under another name
TEMPLATES_OnTimeRenamed ==
  [n \in {"variance_summary", "variance_by_service", "variance_by_sku",
          "variance_by_carrier_service", "on_time",
          "variance_trend_by_carrier", "variance_trend_by_sku",
          "fuel_surcharge_series"} |->
     CASE n = "variance_summary" -> T_variance_summary
       [] n = "variance_by_service" -> T_variance_by_service
       [] n = "variance_by_sku" -> T_variance_by_sku
       [] n = "variance_by_carrier_service" -> T_variance_by_carrier_service
       [] n = "on_time" -> T_on_time_rate
       [] n = "variance_trend_by_carrier" -> T_variance_trend_by_carrier
       [] n = "variance_trend_by_sku" -> T_variance_trend_by_sku
       [] OTHER -> T_fuel_surcharge_series]

TEMPLATES ==
  [n \in {"variance_summary", "variance_by_service", "variance_by_sku",
          "variance_by_carrier_service", "on_time_rate",
          "variance_trend_by_carrier", "variance_trend_by_sku",
          "fuel_surcharge_series"} |->
     CASE n = "variance_summary" -> T_variance_summary
       [] n = "variance_by_service" -> T_variance_by_service
       [] n = "variance_by_sku" -> T_variance_by_sku
       [] n = "variance_by_carrier_service" -> T_variance_by_carrier_service
       [] n = "on_time_rate" -> T_on_time_rate
       [] n = "variance_trend_by_carrier" -> T_variance_trend_by_carrier
       [] n = "variance_trend_by_sku" -> T_variance_trend_by_sku
       [] OTHER -> T_fuel_surcharge_series]

(***************************************************************************)
(* services/fabric_data_agent.py: the read-only guardrail.                 *)
(***************************************************************************)
\* the loop that strips leading whitespace and comments
RECURSIVE StripLeadingComments(_)
StripLeadingComments(s0) ==
  LET s == LStrip(s0) IN
  IF StartsWith(s, <<"/", "*">>)
    THEN LET end == Find(s, <<"*", "/">>) IN
         StripLeadingComments(IF end # 0 THEN Drop(s, end + 2) ELSE <<>>)
  ELSE IF StartsWith(s, <<"-", "-">>)
    THEN LET nl == Find(s, <<"\n">>) IN
         StripLeadingComments(IF nl # 0 THEN Drop(s, nl + 1) ELSE <<>>)
  ELSE s

\* re.match(r"([a-zA-Z]+)", s), lowered; the empty string when no match
LeadingKeyword(sql) ==
  LET s == StripLeadingComments(sql)
  IN  Lower(SubSeq(s, 1, RunEnd(s, 1, LetterSet) - 1))

KwSelect == <<"s","e","l","e","c","t">>

KwWith == <<"w","i","t","h">>

\* TRUE when _ensure_read_only returns, FALSE when it raises PermissionError
ReadOnlyOk(sql) == LeadingKeyword(sql) \in {KwSelect, KwWith}

(***************************************************************************)
(* agents/structured_data_agent.py: the view-only guardrail.               *)
(***************************************************************************)
\* does r"\b<kw>\s+([\w\.]+)" (re.IGNORECASE) match at position i of sql
KeywordHit(sql, kw, i) ==
  /\ i + Len(kw) - 1 <= Len(sql)
  /\ Lower(SubSeq(sql, i, i + Len(kw) - 1)) = kw
  /\ (i = 1 \/ sql[i - 1] \notin WordChars)
  /\ RunEnd(sql, i + Len(kw), SpaceChars) > i + Len(kw)
  /\ RunEnd(sql, RunEnd(sql, i + Len(kw), SpaceChars), WordChars \cup {"."})
       > RunEnd(sql, i + Len(kw), SpaceChars)

\* re.finditer(r"\b<kw>\s+([\w\.]+)", sql, re.IGNORECASE) from position i:
\* the captured groups of the successive non-overlapping matches
RECURSIVE FindNames(_, _, _)
FindNames(sql, kw, i) ==
  LET hits == {j \in i..Len(sql) : KeywordHit(sql, kw, j)} IN
  IF hits = {} THEN <<>>
  ELSE LET j     == CHOOSE h \in hits : \A g \in hits : h <= g
           wsEnd == RunEnd(sql, j + Len(kw), SpaceChars)
           nmEnd == RunEnd(sql, wsEnd, WordChars \cup {"."})
       IN  <<SubSeq(sql, wsEnd, nmEnd - 1)>> \o FindNames(sql, kw, nmEnd)

KwFrom == <<"f","r","o","m">>

KwJoin == <<"j","o","i","n">>

\* the list `names` if the JOIN loop were missing
ReferencedNames_FromOnly(sql) == FindNames(sql, KwFrom, 1)

\* the list `names` built by the two finditer loops
ReferencedNames(sql) == FindNames(sql, KwFrom, 1) \o FindNames(sql, KwJoin, 1)

ViewPrefix == <<"v","w","_">>

DeniedPrefixes ==
  { <<"d","b","o",".">>, <<"s","y","s",".">>,
    <<"i","n","f","o","r","m","a","t","i","o","n","_","s","c","h","e","m","a",".">> }

\* the test the loop applies to one name: TRUE when it raises
NameBlocked(n) ==
  LET nl == Lower(n) IN
  /\ ~(StartsWith(nl, ViewPrefix) \/ Contains(nl, <<".">> \o ViewPrefix))
  /\ \E p \in DeniedPrefixes : StartsWith(nl, p)

\* TRUE when _ensure_view_only returns, FALSE when it raises PermissionError
ViewOnlyOk(sql) ==
  LET names == ReferencedNames(sql) IN \A k \in DOMAIN names : ~NameBlocked(names[k])

(***************************************************************************)
(* String literals of the router, the orchestrator and the helpers.        *)
(***************************************************************************)
K_variance == <<"v","a","r","i","a","n","c","e">>

K_overbill == <<"o","v","e","r","b","i","l","l">>

K_how_much == <<"h","o","w"," ","m","u","c","h">>

K_total == <<"t","o","t","a","l">>

K_rate_sp == <<"r","a","t","e"," ">>

K_service == <<"s","e","r","v","i","c","e">>

K_by_service == <<"b","y"," ","s","e","r","v","i","c","e">>

K_on_time_hyphen == <<"o","n","-","t","i","m","e">>

K_on_time == <<"o","n"," ","t","i","m","e">>

K_sla == <<"s","l","a">>

K_email_from == <<"e","m","a","i","l"," ","f","r","o","m">>

K_calendar_on == <<"c","a","l","e","n","d","a","r"," ","o","n">>

K_file_named == <<"f","i","l","e"," ","n","a","m","e","d">>

K_in_sharepoint == <<"i","n"," ","s","h","a","r","e","p","o","i","n","t">>

K_from_user_sp == <<"f","r","o","m"," ","u","s","e","r"," ">>

K_email == <<"e","m","a","i","l">>

K_calendar == <<"c","a","l","e","n","d","a","r">>

K_file == <<"f","i","l","e">>

K_meeting == <<"m","e","e","t","i","n","g">>

K_carrier == <<"c","a","r","r","i","e","r">>

K_sku == <<"s","k","u">>

K_service_level == <<"s","e","r","v","i","c","e"," ","l","e","v","e","l">>

K_last_year == <<"l","a","s","t"," ","y","e","a","r">>

K_this_year == <<"t","h","i","s"," ","y","e","a","r">>

K_last_month == <<"l","a","s","t"," ","m","o","n","t","h">>

K_this_month == <<"t","h","i","s"," ","m","o","n","t","h">>

K_quarter == <<"q","u","a","r","t","e","r">>

K_last_quarter == <<"l","a","s","t"," ","q","u","a","r","t","e","r">>

P_from == <<"@","f","r","o","m">>

P_to == <<"@","t","o">>

P_carrier == <<"@","c","a","r","r","i","e","r">>

P_sku == <<"@","s","k","u">>

P_service == <<"@","s","e","r","v","i","c","e">>

(***************************************************************************)
(* agents/router.py                                                        *)
(***************************************************************************)
SqlKeywords == {K_variance, K_overbill, K_how_much, K_total, K_rate_sp}

GraphKeywords == {K_email_from, K_calendar_on, K_file_named, K_in_sharepoint, K_from_user_sp}

\* a parameter map is a function from placeholder names to values
EmptyParams == [k \in {} |-> <<>>]

\* the two `if any(...)` blocks in the opposite order
classify_GraphFirst(query) ==
  LET q == Lower(query) IN
  IF \E k \in GraphKeywords : Contains(q, k)
    THEN [tool |-> "graph", name |-> "lookup", params |-> EmptyParams]
  ELSE IF \E k \in SqlKeywords : Contains(q, k)
    THEN IF Contains(q, K_service) \/ Contains(q, K_by_service)
           THEN [tool |-> "sql", name |-> "variance_by_service", params |-> EmptyParams]
         ELSE IF Contains(q, K_on_time_hyphen) \/ Contains(q, K_on_time) \/ Contains(q, K_sla)
           THEN [tool |-> "sql", name |-> "on_time_rate", params |-> EmptyParams]
         ELSE [tool |-> "sql", name |-> "variance_summary", params |-> EmptyParams]
  ELSE [tool |-> "rag", name |-> "contract_lookup", params |-> EmptyParams]

\* the graph keyword tuple with an empty string in it: "" in q is always true
classify_EmptyKeyword(query) ==
  LET q == Lower(query) IN
  IF \E k \in SqlKeywords : Contains(q, k)
    THEN IF Contains(q, K_service) \/ Contains(q, K_by_service)
           THEN [tool |-> "sql", name |-> "variance_by_service", params |-> EmptyParams]
         ELSE IF Contains(q, K_on_time_hyphen) \/ Contains(q, K_on_time) \/ Contains(q, K_sla)
           THEN [tool |-> "sql", name |-> "on_time_rate", params |-> EmptyParams]
         ELSE [tool |-> "sql", name |-> "variance_summary", params |-> EmptyParams]
  ELSE [tool |-> "graph", name |-> "lookup", params |-> EmptyParams]

classify(query) ==
  LET q == Lower(query) IN
  IF \E k \in SqlKeywords : Contains(q, k)
    THEN IF Contains(q, K_service) \/ Contains(q, K_by_service)
           THEN [tool |-> "sql", name |-> "variance_by_service", params |-> EmptyParams]
         ELSE IF Contains(q, K_on_time_hyphen) \/ Contains(q, K_on_time) \/ Contains(q, K_sla)
           THEN [tool |-> "sql", name |-> "on_time_rate", params |-> EmptyParams]
         ELSE [tool |-> "sql", name |-> "variance_summary", params |-> EmptyParams]
  ELSE IF \E k \in GraphKeywords : Contains(q, k)
    THEN [tool |-> "graph", name |-> "lookup", params |-> EmptyParams]
  ELSE [tool |-> "rag", name |-> "contract_lookup", params |-> EmptyParams]

(***************************************************************************)
(* agents/orchestrator.py: pure helpers.                                   *)
(***************************************************************************)
NeedsGraphKeywords == {K_email, K_calendar, K_file, K_meeting}

_needs_graph(query) == \E k \in NeedsGraphKeywords : Contains(Lower(query), k)

\* date arithmetic of datetime.date for the first and last day of a month
IsLeap(y) == (y % 4 = 0 /\ y % 100 # 0) \/ y % 400 = 0

DaysInMonth(y, m) ==
  IF m = 2 THEN (IF IsLeap(y) THEN 29 ELSE 28)
  ELSE IF m \in {4, 6, 9, 11} THEN 30 ELSE 31

\* date(y, m + 1, 1) - timedelta(days=1), and date(y + 1, 1, 1) - timedelta(days=1)
\* when m = 12: the last day of month m of year y
LastDayOf(y, m) == [year |-> y, month |-> m, day |-> DaysInMonth(y, m)]

FirstDayOf(y, m) == [year |-> y, month |-> m, day |-> 1]

\* the decimal digits of n, zero-padded to width w
RECURSIVE Pad(_, _)
Pad(n, w) == IF w = 0 THEN <<>> ELSE Pad(n \div 10, w - 1) \o <<Digits[(n % 10) + 1]>>

\* d.strftime("%Y-%m-%d")
_fmt(d) == Pad(d.year, 4) \o <<"-">> \o Pad(d.month, 2) \o <<"-">> \o Pad(d.day, 2)

TimeRange(start, end) == (P_from :> _fmt(start)) @@ (P_to :> _fmt(end))

\* the function without `y -= 1` where the quarter index wraps to 4
_infer_time_range_SameYear(query, today) ==
  LET q == Lower(query) IN
  IF Contains(q, K_last_year)
    THEN TimeRange(FirstDayOf(today.year - 1, 1), [year |-> today.year - 1, month |-> 12, day |-> 31])
  ELSE IF Contains(q, K_this_year)
    THEN TimeRange(FirstDayOf(today.year, 1), [year |-> today.year, month |-> 12, day |-> 31])
  ELSE IF Contains(q, K_last_month)
    THEN LET m0 == today.month - 1
             y  == IF m0 = 0 THEN today.year - 1 ELSE today.year
             m  == IF m0 = 0 THEN 12 ELSE m0
         IN  TimeRange(FirstDayOf(y, m), LastDayOf(y, m))
  ELSE IF Contains(q, K_this_month)
    THEN TimeRange(FirstDayOf(today.year, today.month), LastDayOf(today.year, today.month))
  ELSE IF Contains(q, K_quarter)
    THEN LET cur   == ((today.month - 1) \div 3) + 1
             last  == Contains(q, K_last_quarter)
             q_idx == IF last THEN (IF cur - 1 = 0 THEN 4 ELSE cur - 1) ELSE cur
             start_month == 3 * (q_idx - 1) + 1
             end_month   == start_month + 2
         IN  TimeRange(FirstDayOf(today.year, start_month), LastDayOf(today.year, end_month))
  ELSE EmptyParams

\* today is a record [year, month, day]
_infer_time_range(query, today) ==
  LET q == Lower(query) IN
  IF Contains(q, K_last_year)
    THEN TimeRange(FirstDayOf(today.year - 1, 1), [year |-> today.year - 1, month |-> 12, day |-> 31])
  ELSE IF Contains(q, K_this_year)
    THEN TimeRange(FirstDayOf(today.year, 1), [year |-> today.year, month |-> 12, day |-> 31])
  ELSE IF Contains(q, K_last_month)
    THEN LET m0 == today.month - 1
             y  == IF m0 = 0 THEN today.year - 1 ELSE today.year
             m  == IF m0 = 0 THEN 12 ELSE m0
         IN  TimeRange(FirstDayOf(y, m), LastDayOf(y, m))
  ELSE IF Contains(q, K_this_month)
    THEN TimeRange(FirstDayOf(today.year, today.month), LastDayOf(today.year, today.month))
  ELSE IF Contains(q, K_quarter)
    THEN LET cur   == ((today.month - 1) \div 3) + 1
             last  == Contains(q, K_last_quarter)
             q_idx == IF last THEN (IF cur - 1 = 0 THEN 4 ELSE cur - 1) ELSE cur
             y     == IF last /\ cur - 1 = 0 THEN today.year - 1 ELSE today.year
             start_month == 3 * (q_idx - 1) + 1
             end_month   == start_month + 2
         IN  TimeRange(FirstDayOf(y, start_month), LastDayOf(y, end_month))
  ELSE EmptyParams

(***************************************************************************)
(* utils/helpers.py: extract_param_value.  None is represented by the      *)
(* empty sequence: the function never returns the empty string, because    *)
(* `m.group(2) or m.group(3)` turns an empty quoted value into None.       *)
(***************************************************************************)
SepChars == {":", "="} \cup SpaceChars

TokenChars == WordChars \cup {"-", "."}

QuoteChars == {"'", "\""}

\* the value of the match of
\*   key[:=\s]+(?:(['"])(.*?)\1|([\w\-.]+))
\* that starts at position i, as <<matched, value>>
ParamMatchAt(text, key, i) ==
  LET kEnd == i + Len(key)
      sEnd == RunEnd(text, kEnd, SepChars)
      keyOk == /\ kEnd - 1 <= Len(text)
               /\ Lower(SubSeq(text, i, kEnd - 1)) = Lower(key)
               /\ sEnd > kEnd
  IN  IF ~keyOk \/ sEnd > Len(text) THEN <<FALSE, <<>>>>
      ELSE IF text[sEnd] \in QuoteChars
        THEN \* (['"])(.*?)\1 : the nearest closing quote, no newline in between
             LET closes == {j \in (sEnd + 1)..Len(text) : text[j] = text[sEnd]} IN
             IF closes = {} THEN <<FALSE, <<>>>>
             ELSE LET c == CHOOSE j \in closes : \A g \in closes : j <= g IN
                  IF \E j \in (sEnd + 1)..(c - 1) : text[j] = "\n"
                    THEN <<FALSE, <<>>>>
                    ELSE <<TRUE, SubSeq(text, sEnd + 1, c - 1)>>
      ELSE IF text[sEnd] \in TokenChars
        THEN <<TRUE, SubSeq(text, sEnd, RunEnd(text, sEnd, TokenChars) - 1)>>
      ELSE <<FALSE, <<>>>>

\* re.search: the leftmost match
extract_param_value(text, key) ==
  LET hits == {i \in 1..Len(text) : ParamMatchAt(text, key, i)[1]} IN
  IF hits = {} THEN <<>>
  ELSE ParamMatchAt(text, key, CHOOSE i \in hits : \A g \in hits : i <= g)[2]

\* the parameter map the string path of handle / handle_with_citations
\* builds for the structured agent (lines 39-53 and 97-111)
BuildSqlParams(query, decision, today) ==
  LET base == IF P_from \notin DOMAIN decision.params \/ P_to \notin DOMAIN decision.params
                THEN _infer_time_range(query, today) @@ decision.params
                ELSE decision.params
      carrier == extract_param_value(query, K_carrier)
      sku     == extract_param_value(query, K_sku)
      sl      == extract_param_value(query, K_service_level)
      service == IF sl # <<>> THEN sl ELSE extract_param_value(query, K_service)
      p1 == IF carrier # <<>> THEN (P_carrier :> carrier) @@ base ELSE base
      p2 == IF sku # <<>> THEN (P_sku :> sku) @@ p1 ELSE p1
  IN  IF service # <<>> THEN (P_service :> service) @@ p2 ELSE p2

(***************************************************************************)
(* The state of one call into the program.                                 *)
(***************************************************************************)
VARIABLES
  entry,       \* the function the caller invoked
  req,         \* its argument: [kind, text, template, params]
  templates,   \* StructuredDataAgent._templates
  mode,        \* FabricDataAgent._mode resolved: "http" or "odbc"
  hasGraph,    \* OrchestratorAgent._graph_service is not None
  hasMeta,     \* the unstructured agent has search_with_meta
  hybrid,      \* SearchService._hybrid with an embedding endpoint configured
  today,       \* date.today()
  backend,     \* the outcomes the backends can produce for one POST
  envMaxRows,  \* os.environ["AGENT_MAX_ROWS"], 0 when it is not set
  envPbi,      \* the Power BI identifiers set (and not empty) in os.environ
  extraHeaders,\* the extra_headers the clients were constructed with
  pc,          \* the code position of the call
  stage,       \* "try" inside the try block of the string path, "direct" otherwise
  qTemplate,   \* arguments of StructuredDataAgent.query
  qParams,
  execArgs,    \* arguments of run_sql / run_sql_params: <<sql, parameters>>
  client,      \* the client whose _post_with_retry is running
  attempt,     \* the loop variable of _post_with_retry
  statuses,    \* outcomes of the POSTs of the current _post_with_retry call
  agentCalls,  \* collaborators the orchestrator invoked, in order
  execCalls,   \* invocations of run_sql / run_sql_params
  odbcExecs,   \* cursor.execute invocations
  odbcArgs,    \* the arguments of the last cursor.execute: <<sql, values>>
  posts,       \* POSTs sent to each backend
  embedPosts,  \* POSTs sent to the embedding endpoint
  sqlError,    \* why the SQL path failed, "none" if it did not
  swallowed,   \* the exception the orchestrator's `except Exception: pass` dropped
  respBody,    \* the body of the response a client read with response.json()
  results,     \* the decisions router.classify returned to a direct caller, in order
  sent,        \* destination, text and headers of every requests.post, in order
  outcome,     \* what the entry function returned or raised
  cReq,        \* concurrent calls of handle: the argument of each
  cPc,         \* the code position of each
  cRef,        \* the dict object the local variable params of each refers to
  heap,        \* the contents of the dict objects allocated so far
  cTemplate,   \* the local variable name / template of each
  cPayload,    \* the payload run_sql_params built for each
  cOut         \* what each call returned or raised

\* the state of the concurrent calls
conc == <<cReq, cPc, cRef, heap, cTemplate, cPayload, cOut>>

\* what no step of a single call changes
inputs == <<entry, req, templates, mode, hasGraph, hasMeta, hybrid, today, backend,
            envMaxRows, envPbi, extraHeaders, conc>>

\* the state of the single call
single == <<entry, req, templates, mode, hasGraph, hasMeta, hybrid, today, backend,
            envMaxRows, envPbi, extraHeaders, sent, pc, stage,
            qTemplate, qParams, execArgs, client, attempt, statuses, agentCalls,
            execCalls, odbcExecs, odbcArgs, posts, embedPosts, sqlError, swallowed, respBody,
            results, outcome>>

vars == <<single, conc>>

OrchEntries == {"handle", "handle_with_citations"}

\* handle_agent_query calls handle_with_citations on its orchestrator
OrchCallers == OrchEntries \cup {"handle_agent_query"}

\* the callers that receive the envelope of handle_with_citations
Enveloped == {"handle_with_citations", "handle_agent_query"}

Clients == {"sql", "rag", "graph"}

\* the retry budget: for attempt in range(3)
MaxAttempts == 3

\* resp.status_code in {429, 500, 502, 503, 504}
RetryStatuses == {429, 500, 502, 503, 504}

\* the outcome of a requests.post that raises instead of returning a response
\* (connection error, timeout), encoded among the status codes
ConnFail == 0

\* what one requests.post can produce
Statuses == {200, 400, 401, 403, 404} \cup RetryStatuses \cup {ConnFail}

\* largest number of rows / passages / hits in a response body
MaxRows == 6

\* a response body for which response.json() raises, encoded among the sizes
Malformed == -1

\* a response body: n items, or Malformed
Bodies == (0..MaxRows) \cup {Malformed}

\* no response was read yet
NoBody == -2

Rows(n) == [i \in 1..n |-> i]

\* the product identifier the SQL and the directory-search client write out
ProductId == <<"L", "e", "f", "t", "T", "u", "r", "n", "/", "1", ".", "0">>

\* the constant the document-search client imports from utils.constants, a
\* module the sources do not hold: the same fixed product identifier
USER_AGENT == ProductId

\* the headers every client builds before it updates them with extra_headers
BaseHeaders(c) ==
  IF c = "rag"
    THEN [h \in {"api-key", "Content-Type", "User-Agent"} |->
            IF h = "User-Agent" THEN USER_AGENT
            ELSE IF h = "api-key" THEN "{api_key}" ELSE "application/json"]
    ELSE [h \in {"Authorization", "Content-Type", "User-Agent"} |->
            IF h = "User-Agent" THEN ProductId
            ELSE IF h = "Authorization" THEN "Bearer {token}" ELSE "application/json"]

\* the client forgetting its extra_headers
RequestHeaders_BaseOnly(c, extra) == BaseHeaders(c)

\* headers.update(self._extra_headers): an extra header replaces a base one
RequestHeaders(c, extra) == extra @@ BaseHeaders(c)

\* the text a client puts in the body of its request: run_sql_params the
\* statement, search and get_resource the query they were called with
RequestText(c) == IF c = "sql" THEN execArgs[1] ELSE req.text

\* the headers _embed sends to the embedding endpoint
EmbedHeaders ==
  [h \in {"api-key", "Content-Type", "User-Agent"} |->
     IF h = "User-Agent" THEN USER_AGENT
     ELSE IF h = "api-key" THEN "{AZURE_OPENAI_API_KEY}" ELSE "application/json"]

\* a correlation header as the caller of a constructor supplies it
CorrelationHeader == [h \in {"X-Correlation-ID"} |-> "CID-1"]

\* the extra_headers a client is constructed with: none, or the correlation header
ExtraHeaderSets == {EmptyParams, CorrelationHeader}

\* the length of the i-th passage of the index: one longer than an excerpt,
\* one exactly as long, the others short
PassageLen(i) == IF i = 1 THEN 201 ELSE IF i = 2 THEN 200 ELSE i

\* the content of the i-th passage
PassageText(i) == [k \in 1..PassageLen(i) |-> Digits[i + 1]]

\* the list search() makes of a response with n documents
Passages(n) == [i \in 1..n |-> PassageText(i)]

\* the list a client makes of a response with n items
Items(c, n) == IF c = "rag" THEN Passages(n) ELSE Rows(n)

Pending == [kind |-> "pending"]

Returned(v) == [kind |-> "return", value |-> v]

Raised(e, c) == [kind |-> "raise", exc |-> e, cause |-> c]

\* one call, no concurrent ones
ConcIdle ==
  /\ cReq = <<>> /\ cPc = <<>> /\ cRef = <<>> /\ heap = <<>>
  /\ cTemplate = <<>> /\ cPayload = <<>> /\ cOut = <<>>

InitSingle(E, R, T, M, G, H, Y, D, B, C, P, X) ==
  /\ envMaxRows \in C
  /\ envPbi \in P
  /\ extraHeaders \in X
  /\ sent = <<>>
  /\ entry \in E
  /\ req \in R
  /\ templates \in T
  /\ mode \in M
  /\ hasGraph \in G
  /\ hasMeta \in H
  /\ hybrid \in Y
  /\ today \in D
  /\ backend = B
  /\ pc = "start"
  /\ stage = "direct"
  /\ qTemplate = ""
  /\ qParams = EmptyParams
  /\ execArgs = <<<<>>, EmptyParams>>
  /\ client = "none"
  /\ attempt = 0
  /\ statuses = <<>>
  /\ agentCalls = <<>>
  /\ execCalls = 0
  /\ odbcExecs = 0
  /\ odbcArgs = <<<<>>, <<>>>>
  /\ posts = [c \in Clients |-> 0]
  /\ embedPosts = 0
  /\ sqlError = "none"
  /\ swallowed = "none"
  /\ respBody = NoBody
  /\ results = <<>>
  /\ outcome = Pending

InitWithEnv(E, R, T, M, G, H, Y, D, B, C, P, X) ==
  InitSingle(E, R, T, M, G, H, Y, D, B, C, P, X) /\ ConcIdle

\* the same with neither AGENT_MAX_ROWS nor a Power BI report configured, and
\* clients constructed without extra_headers
InitWith(E, R, T, M, G, H, Y, D, B) ==
  InitWithEnv(E, R, T, M, G, H, Y, D, B, {0}, {{}}, {EmptyParams})

(***************************************************************************)
(* How a result or an exception travels from a client back to the caller.  *)
(***************************************************************************)
\* _extract_views_from_template: sorted(set(names)) of TEMPLATES.get(template, "")
ViewsOf(template) ==
  IF template \in DOMAIN TEMPLATES THEN Range(ReferencedNames(TEMPLATES[template])) ELSE {}

\* s[:n]
Take(s, n) == SubSeq(s, 1, IF Len(s) < n THEN Len(s) ELSE n)

\* the envelope with every row of the result as sample
SqlEnvelope_SampleAll(data) ==
  [tool |-> "fabric_sql", result |-> data, sampleRows |-> data,
   citations |-> << [type |-> "table", source |-> "fabric", template |-> qTemplate,
                     parameters |-> qParams] >>]

\* the envelope of the two SQL paths of handle_with_citations; views is the
\* set of the names the sorted list holds
SqlEnvelope(data) ==
  [tool |-> "fabric_sql", result |-> data, sampleRows |-> Take(data, 3),
   citations |-> << [type |-> "table", source |-> "fabric", template |-> qTemplate,
                     parameters |-> qParams]
                    @@ (IF ViewsOf(qTemplate) # {}
                          THEN [views |-> ViewsOf(qTemplate)]
                          ELSE EmptyParams) >>]

\* the envelope of the directory-search path
GraphEnvelope(data) ==
  [tool |-> "graph", result |-> data,
   citations |-> << [type |-> "graph", query |-> req.text, count |-> Len(data)] >>]

\* the envelope with one citation per passage
SearchEnvelope_CiteAll(data) ==
  [tool |-> "ai_search", result |-> data,
   citations |-> [i \in 1..Len(data) |->
                    [type |-> "passage", rank |-> i, excerpt |-> Take(data[i], 200)]]]

\* the envelope of the document-search path: with search_with_meta (hasMeta)
\* the result holds the texts of the first five documents, without it every
\* passage; the documents of the index carry no file, page or clauseId
SearchEnvelope(data) ==
  [tool |-> "ai_search", result |-> IF hasMeta THEN Take(data, 5) ELSE data,
   citations |-> [i \in 1..Len(Take(data, 5)) |->
                    [type |-> "passage", rank |-> i, excerpt |-> Take(data[i], 200)]]]

\* the envelope handle_with_citations builds around the result of a tool
Envelope(tool, data) ==
  CASE tool = "sql" -> SqlEnvelope(data)
    [] tool = "graph" -> GraphEnvelope(data)
    [] OTHER -> SearchEnvelope(data)

\* the client `tool` returned `data`
Deliver(tool, data) ==
  /\ pc' = IF entry = "handle_agent_query" THEN "gateway" ELSE "done"
  /\ outcome' = Returned(IF entry \in Enveloped THEN Envelope(tool, data) ELSE data)
  /\ UNCHANGED <<swallowed, sqlError>>

\* every client written as get_resource is: except Exception: return []
Throw_ReturnEmpty(tool, exc, cause) == Deliver(tool, <<>>)

\* get_resource without its try / except: the exception leaves the client
Throw_Propagate(tool, exc, cause) ==
  IF tool = "sql" /\ entry \in OrchCallers /\ stage = "try"
    THEN /\ pc' = "fallback"
         /\ swallowed' = exc
         /\ sqlError' = cause
         /\ UNCHANGED outcome
  ELSE /\ pc' = "done"
       /\ outcome' = Raised(exc, cause)
       /\ sqlError' = IF tool = "sql" THEN cause ELSE sqlError
       /\ UNCHANGED swallowed

\* the code of `tool` raised `exc`; cause says where
Throw(tool, exc, cause) ==
  IF tool = "graph"
    THEN \* get_resource: except Exception: return []
         Deliver("graph", <<>>)
  ELSE IF tool = "sql" /\ entry \in OrchCallers /\ stage = "try"
    THEN \* handle / handle_with_citations: except Exception: pass
         /\ pc' = "fallback"
         /\ swallowed' = exc
         /\ sqlError' = cause
         /\ UNCHANGED outcome
  ELSE /\ pc' = "done"
       /\ outcome' = Raised(exc, cause)
       /\ sqlError' = IF tool = "sql" THEN cause ELSE sqlError
       /\ UNCHANGED swallowed

(***************************************************************************)
(* agents/orchestrator.py: handle and handle_with_citations.               *)
(***************************************************************************)
\* isinstance(query, tuple): the pre-formed structured request
\* the tuple path keeping only the time window of the caller's map
HandleTuple_WindowOnly ==
  /\ pc = "start" /\ entry \in OrchCallers /\ req.kind = "tuple"
  /\ qTemplate' = req.template
  /\ qParams' = [k \in DOMAIN req.params \cap {P_from, P_to} |-> req.params[k]]
  /\ agentCalls' = Append(agentCalls, "sql")
  /\ pc' = "query"
  /\ UNCHANGED <<inputs, sent, results, respBody, stage, execArgs, client, attempt, statuses, execCalls, odbcExecs, odbcArgs,
                 posts, embedPosts, sqlError, swallowed, outcome>>

HandleTuple ==
  /\ pc = "start" /\ entry \in OrchCallers /\ req.kind = "tuple"
  /\ qTemplate' = req.template
  /\ qParams' = req.params
  /\ agentCalls' = Append(agentCalls, "sql")
  /\ pc' = "query"
  /\ UNCHANGED <<inputs, sent, results, respBody, stage, execArgs, client, attempt, statuses, execCalls, odbcExecs, odbcArgs,
                 posts, embedPosts, sqlError, swallowed, outcome>>

\* string query classified as sql: build the parameters, call the structured agent
HandleSql ==
  /\ pc = "start" /\ entry \in OrchCallers /\ req.kind = "str"
  /\ LET decision == classify(req.text) IN
     /\ decision.tool = "sql"
     /\ qTemplate' = decision.name
     /\ qParams' = BuildSqlParams(req.text, decision, today)
  /\ stage' = "try"
  /\ agentCalls' = Append(agentCalls, "sql")
  /\ pc' = "query"
  /\ UNCHANGED <<inputs, sent, results, respBody, execArgs, client, attempt, statuses, execCalls, odbcExecs, odbcArgs,
                 posts, embedPosts, sqlError, swallowed, outcome>>

\* the graph decision sent to the unstructured agent instead
HandleGraph_ToSearch ==
  /\ pc = "start" /\ entry \in OrchCallers /\ req.kind = "str"
  /\ classify(req.text).tool = "graph" /\ hasGraph
  /\ stage' = "try"
  /\ agentCalls' = Append(agentCalls, "rag")
  /\ pc' = "search"
  /\ UNCHANGED <<inputs, sent, results, respBody, qTemplate, qParams, execArgs, client, attempt, statuses, execCalls,
                 odbcExecs, odbcArgs, posts, embedPosts, sqlError, swallowed, outcome>>

\* string query classified as graph, with a graph service
HandleGraph ==
  /\ pc = "start" /\ entry \in OrchCallers /\ req.kind = "str"
  /\ classify(req.text).tool = "graph" /\ hasGraph
  /\ stage' = "try"
  /\ agentCalls' = Append(agentCalls, "graph")
  /\ pc' = "get_resource"
  /\ UNCHANGED <<inputs, sent, results, respBody, qTemplate, qParams, execArgs, client, attempt, statuses, execCalls,
                 odbcExecs, odbcArgs, posts, embedPosts, sqlError, swallowed, outcome>>

\* string query that leaves the try block without a return
HandleOther ==
  /\ pc = "start" /\ entry \in OrchCallers /\ req.kind = "str"
  /\ LET decision == classify(req.text) IN
     /\ decision.tool # "sql"
     /\ ~(decision.tool = "graph" /\ hasGraph)
  /\ pc' = "fallback"
  /\ UNCHANGED <<inputs, sent, results, respBody, stage, qTemplate, qParams, execArgs, client, attempt, statuses,
                 agentCalls, execCalls, odbcExecs, odbcArgs, posts, embedPosts, sqlError, swallowed,
                 outcome>>

\* after the try block: the keyword check for Graph intents
FallbackGraph ==
  /\ pc = "fallback"
  /\ hasGraph /\ _needs_graph(req.text)
  /\ stage' = "direct"
  /\ agentCalls' = Append(agentCalls, "graph")
  /\ pc' = "get_resource"
  /\ UNCHANGED <<inputs, sent, results, respBody, qTemplate, qParams, execArgs, client, attempt, statuses, execCalls,
                 odbcExecs, odbcArgs, posts, embedPosts, sqlError, swallowed, outcome>>

\* the last statement without the test of self._graph_service: a text with a
\* directory word reaches get_resource of None and the AttributeError leaves
FallbackSearch_GraphUnchecked ==
  /\ pc = "fallback"
  /\ ~(hasGraph /\ _needs_graph(req.text))
  /\ IF _needs_graph(req.text)
       THEN /\ pc' = "done"
            /\ outcome' = Raised("AttributeError", "graph")
            /\ UNCHANGED <<stage, agentCalls>>
       ELSE /\ stage' = "direct"
            /\ agentCalls' = Append(agentCalls, "rag")
            /\ pc' = "search"
            /\ UNCHANGED outcome
  /\ UNCHANGED <<inputs, sent, results, respBody, qTemplate, qParams, execArgs, client, attempt, statuses, execCalls,
                 odbcExecs, odbcArgs, posts, embedPosts, sqlError, swallowed>>

\* the last statement: the unstructured agent
FallbackSearch ==
  /\ pc = "fallback"
  /\ ~(hasGraph /\ _needs_graph(req.text))
  /\ stage' = "direct"
  /\ agentCalls' = Append(agentCalls, "rag")
  /\ pc' = "search"
  /\ UNCHANGED <<inputs, sent, results, respBody, qTemplate, qParams, execArgs, client, attempt, statuses, execCalls,
                 odbcExecs, odbcArgs, posts, embedPosts, sqlError, swallowed, outcome>>

(***************************************************************************)
(* agents/router.py: classify called directly, possibly several times on   *)
(* the same text.                                                          *)
(***************************************************************************)
\* largest number of calls of classify on one text
MaxCalls == 2

Classify ==
  /\ entry = "classify"
  /\ pc \in {"start", "done"}
  /\ Len(results) < MaxCalls
  /\ results' = Append(results, classify(req.text))
  /\ outcome' = Returned(classify(req.text))
  /\ pc' = "done"
  /\ UNCHANGED <<inputs, sent, respBody, stage, qTemplate, qParams, execArgs, client, attempt, statuses,
                 agentCalls, execCalls, odbcExecs, odbcArgs, posts, embedPosts, sqlError, swallowed>>

(***************************************************************************)
(* agents/orchestrator.py: _infer_time_range called directly.              *)
(***************************************************************************)
InferTimeRange ==
  /\ entry = "_infer_time_range"
  /\ pc = "start"
  /\ results' = Append(results, _infer_time_range(req.text, today))
  /\ outcome' = Returned(_infer_time_range(req.text, today))
  /\ pc' = "done"
  /\ UNCHANGED <<inputs, sent, respBody, stage, qTemplate, qParams, execArgs, client, attempt, statuses,
                 agentCalls, execCalls, odbcExecs, odbcArgs, posts, embedPosts, sqlError, swallowed>>

(***************************************************************************)
(* utils/pbi.py and functions/agent_gateway: handle_agent_query after      *)
(* handle_with_citations returned.                                         *)
(***************************************************************************)
\* the environment variables a deep link is built from
PbiIds == {"PBI_WORKSPACE_ID", "PBI_REPORT_ID"}

\* what build_pbi_deeplink returns when it returns no link
None == "None"

\* the link built as soon as one identifier is set
build_pbi_deeplink_EitherId(env) ==
  IF PbiIds \cap env = {} THEN None
  ELSE "https://app.powerbi.com/groups/{ws}/reports/{rep}/ReportSection"

\* the link to the report, without its filter query, or None
build_pbi_deeplink(env) ==
  IF ~(PbiIds \subseteq env) THEN None
  ELSE "https://app.powerbi.com/groups/{ws}/reports/{rep}/ReportSection"

GatewayReturn ==
  /\ pc = "gateway"
  /\ outcome' = IF outcome.value.tool = "fabric_sql"
                  THEN LET pbi == build_pbi_deeplink(envPbi)
                       IN IF pbi # None
                            THEN Returned(outcome.value @@ [powerBiLink |-> pbi])
                            ELSE outcome
                  ELSE outcome
  /\ pc' = "done"
  /\ UNCHANGED <<inputs, sent, results, respBody, stage, qTemplate, qParams, execArgs, client, attempt, statuses,
                 agentCalls, execCalls, odbcExecs, odbcArgs, posts, embedPosts, sqlError, swallowed>>

(***************************************************************************)
(* agents/structured_data_agent.py: StructuredDataAgent.query.             *)
(***************************************************************************)
\* called directly by a test or another caller
CallQuery ==
  /\ pc = "start" /\ entry = "query"
  /\ qTemplate' = req.template
  /\ qParams' = req.params
  /\ pc' = "query"
  /\ UNCHANGED <<inputs, sent, results, respBody, stage, execArgs, client, attempt, statuses, agentCalls, execCalls,
                 odbcExecs, odbcArgs, posts, embedPosts, sqlError, swallowed, outcome>>

\* the parameters query hands to run_sql_params: `parameters or {}`
ForwardedParams(sql, parameters) == parameters

\* the lookup written as self._templates.get(template, ""): an unknown name
\* reaches run_sql_params with an empty statement
QueryUnknownTemplate_EmptySql ==
  /\ pc = "query"
  /\ qTemplate \notin DOMAIN templates
  /\ execArgs' = <<<<>>, qParams>>
  /\ execCalls' = execCalls + 1
  /\ pc' = "run_sql_params"
  /\ UNCHANGED <<inputs, sent, results, respBody, stage, qTemplate, qParams, client, attempt, statuses, agentCalls,
                 odbcExecs, odbcArgs, posts, embedPosts, sqlError, swallowed, outcome>>

\* sql is None: raise ValueError
QueryUnknownTemplate ==
  /\ pc = "query"
  /\ qTemplate \notin DOMAIN templates
  /\ Throw("sql", "ValueError", "unknown_template")
  /\ UNCHANGED <<inputs, sent, results, respBody, stage, qTemplate, qParams, execArgs, client, attempt, statuses,
                 agentCalls, execCalls, odbcExecs, odbcArgs, posts, embedPosts>>

\* _ensure_view_only raises
QueryBlocked ==
  /\ pc = "query"
  /\ qTemplate \in DOMAIN templates
  /\ ~ViewOnlyOk(templates[qTemplate])
  /\ Throw("sql", "PermissionError", "view_only")
  /\ UNCHANGED <<inputs, sent, results, respBody, stage, qTemplate, qParams, execArgs, client, attempt, statuses,
                 agentCalls, execCalls, odbcExecs, odbcArgs, posts, embedPosts>>

\* return self._fabric_agent.run_sql_params(sql, parameters or {})
QueryExecute ==
  /\ pc = "query"
  /\ qTemplate \in DOMAIN templates
  /\ ViewOnlyOk(templates[qTemplate])
  /\ execArgs' = <<templates[qTemplate], ForwardedParams(templates[qTemplate], qParams)>>
  /\ execCalls' = execCalls + 1
  /\ pc' = "run_sql_params"
  /\ UNCHANGED <<inputs, sent, results, respBody, stage, qTemplate, qParams, client, attempt, statuses, agentCalls,
                 odbcExecs, odbcArgs, posts, embedPosts, sqlError, swallowed, outcome>>

(***************************************************************************)
(* services/fabric_data_agent.py: run_sql and run_sql_params.              *)
(***************************************************************************)
\* called directly: run_sql(sql) or run_sql_params(sql, parameters)
CallRunSql ==
  /\ pc = "start" /\ entry \in {"run_sql", "run_sql_params"}
  /\ execArgs' = <<req.text, IF entry = "run_sql" THEN EmptyParams ELSE req.params>>
  /\ execCalls' = execCalls + 1
  /\ pc' = entry
  /\ UNCHANGED <<inputs, sent, results, respBody, stage, qTemplate, qParams, client, attempt, statuses, agentCalls,
                 odbcExecs, odbcArgs, posts, embedPosts, sqlError, swallowed, outcome>>

\* _ensure_read_only raises
RunSqlRejected ==
  /\ pc \in {"run_sql", "run_sql_params"}
  /\ ~ReadOnlyOk(execArgs[1])
  /\ Throw("sql", "PermissionError", "read_only")
  /\ UNCHANGED <<inputs, sent, results, respBody, stage, qTemplate, qParams, execArgs, client, attempt, statuses,
                 agentCalls, execCalls, odbcExecs, odbcArgs, posts, embedPosts>>

\* re.findall(r"@\w+", sql) from position i: the placeholders in textual
\* order; "@" is no word character, so every "@" before one starts a match
RECURSIVE _iter_param_names(_, _)
_iter_param_names(sql, i) ==
  LET hits == {j \in i..(Len(sql) - 1) : sql[j] = "@" /\ sql[j + 1] \in WordChars} IN
  IF hits = {} THEN <<>>
  ELSE LET j == CHOOSE h \in hits : \A g \in hits : h <= g
           e == RunEnd(sql, j + 1, WordChars)
       IN  <<SubSeq(sql, j, e - 1)>> \o _iter_param_names(sql, e)

\* re.sub(r"@\w+", "?", sql) from position i
RECURSIVE _strip_param_names(_, _)
_strip_param_names(sql, i) ==
  LET hits == {j \in i..(Len(sql) - 1) : sql[j] = "@" /\ sql[j + 1] \in WordChars} IN
  IF hits = {} THEN SubSeq(sql, i, Len(sql))
  ELSE LET j == CHOOSE h \in hits : \A g \in hits : h <= g
       IN  SubSeq(sql, i, j - 1) \o <<"?">>
             \o _strip_param_names(sql, RunEnd(sql, j + 1, WordChars))

\* the list `ordered`: for name in names: if name in parameters: append
RECURSIVE OrderedValues(_, _)
OrderedValues(names, parameters) ==
  IF names = <<>> THEN <<>>
  ELSE (IF names[1] \in DOMAIN parameters THEN <<parameters[names[1]]>> ELSE <<>>)
         \o OrderedValues(Tail(names), parameters)

\* ODBC mode: cursor.execute, then the rows or the driver's error; run_sql
\* executes the statement as it is, run_sql_params with positional markers
RunSqlOdbc ==
  /\ pc \in {"run_sql", "run_sql_params"}
  /\ ReadOnlyOk(execArgs[1])
  /\ mode = "odbc"
  /\ odbcExecs' = odbcExecs + 1
  /\ odbcArgs' = IF pc = "run_sql" THEN <<execArgs[1], <<>>>>
                 ELSE <<_strip_param_names(execArgs[1], 1),
                        OrderedValues(_iter_param_names(execArgs[1], 1), execArgs[2])>>
  /\ \/ \E n \in 0..MaxRows : Deliver("sql", Rows(n))
     \/ Throw("sql", "pyodbc.Error", "odbc")
  /\ UNCHANGED <<inputs, sent, results, respBody, stage, qTemplate, qParams, execArgs, client, attempt, statuses,
                 agentCalls, execCalls, posts, embedPosts>>

\* HTTP mode: build url, headers and payload, enter _post_with_retry
RunSqlHttp ==
  /\ pc \in {"run_sql", "run_sql_params"}
  /\ ReadOnlyOk(execArgs[1])
  /\ mode = "http"
  /\ client' = "sql"
  /\ attempt' = 0
  /\ statuses' = <<>>
  /\ pc' = "post"
  /\ UNCHANGED <<inputs, sent, results, respBody, stage, qTemplate, qParams, execArgs, agentCalls, execCalls,
                 odbcExecs, odbcArgs, posts, embedPosts, sqlError, swallowed, outcome>>

(***************************************************************************)
(* services/search_service.py and agents/unstructured_data_agent.py.       *)
(***************************************************************************)
\* SearchService.search up to the call of _post_with_retry; in hybrid mode
\* _embed first posts to the embedding endpoint and swallows its failure
Search ==
  /\ \/ pc = "search"
     \/ pc = "start" /\ entry = "search"
  /\ embedPosts' = embedPosts + (IF hybrid THEN 1 ELSE 0)
  /\ sent' = IF hybrid THEN Append(sent, [to |-> "embed", text |-> req.text, headers |-> EmbedHeaders]) ELSE sent
  /\ client' = "rag"
  /\ attempt' = 0
  /\ statuses' = <<>>
  /\ pc' = "post"
  /\ UNCHANGED <<inputs, results, respBody, stage, qTemplate, qParams, execArgs, agentCalls, execCalls,
                 odbcExecs, odbcArgs, posts, sqlError, swallowed, outcome>>

(***************************************************************************)
(* services/graph_service.py                                               *)
(***************************************************************************)
\* GraphService.get_resource up to the call of _post_with_retry
GetResource ==
  /\ \/ pc = "get_resource"
     \/ pc = "start" /\ entry = "get_resource"
  /\ client' = "graph"
  /\ attempt' = 0
  /\ statuses' = <<>>
  /\ pc' = "post"
  /\ UNCHANGED <<inputs, sent, results, respBody, stage, qTemplate, qParams, execArgs, agentCalls, execCalls,
                 odbcExecs, odbcArgs, posts, embedPosts, sqlError, swallowed, outcome>>

(***************************************************************************)
(* _post_with_retry, the same loop in the three clients.                   *)
(***************************************************************************)
\* the loop body with `if attempt == 3: raise` in the except clause
LoopStep_LateRaise(a, st) ==
  IF st = ConnFail
    THEN (IF a = 3 THEN "raise" ELSE "again")
  ELSE IF st \in RetryStatuses /\ a < 2
    THEN "again"
  ELSE IF st >= 400
    THEN (IF a = 3 THEN "raise" ELSE "again")
  ELSE "return"

\* one iteration of the loop body on the outcome st of requests.post:
\* "again" (continue / except without raise), "raise" or "return"
LoopStep(a, st) ==
  IF st = ConnFail
    THEN (IF a = 2 THEN "raise" ELSE "again")
  ELSE IF st \in RetryStatuses /\ a < 2
    THEN "again"
  ELSE IF st >= 400
    THEN \* raise_for_status raises inside the try
         (IF a = 2 THEN "raise" ELSE "again")
  ELSE "return"

ExcOf(st) == IF st = ConnFail THEN "ConnectionError" ELSE "HTTPError"

\* an iteration that ends with another iteration
PostRetry ==
  /\ pc = "post"
  /\ sent' = Append(sent, [to |-> client, text |-> RequestText(client), headers |-> RequestHeaders(client, extraHeaders)])
  /\ attempt < MaxAttempts
  /\ \E st \in backend :
       /\ LoopStep(attempt, st) = "again"
       /\ statuses' = Append(statuses, st)
  /\ posts' = [posts EXCEPT ![client] = @ + 1]
  /\ attempt' = attempt + 1
  /\ UNCHANGED <<inputs, results, respBody, pc, stage, qTemplate, qParams, execArgs, client, agentCalls,
                 execCalls, odbcExecs, odbcArgs, embedPosts, sqlError, swallowed, outcome>>

\* every POST of the current call met a transient condition
AllTransient(sts) == \A i \in DOMAIN sts : sts[i] \in RetryStatuses \cup {ConnFail}

\* an iteration that raises out of the loop
PostRaise ==
  /\ pc = "post"
  /\ sent' = Append(sent, [to |-> client, text |-> RequestText(client), headers |-> RequestHeaders(client, extraHeaders)])
  /\ attempt < MaxAttempts
  /\ \E st \in backend :
       /\ LoopStep(attempt, st) = "raise"
       /\ statuses' = Append(statuses, st)
       /\ Throw(client, ExcOf(st),
                IF AllTransient(Append(statuses, st)) THEN "transient" ELSE "http_error")
  /\ posts' = [posts EXCEPT ![client] = @ + 1]
  /\ UNCHANGED <<inputs, results, respBody, stage, qTemplate, qParams, execArgs, client, attempt, agentCalls,
                 execCalls, odbcExecs, odbcArgs, embedPosts>>

\* the loop keeping the response of its first iteration: after a retry the
\* client reads the error page of attempt 1 instead of the last response
PostReturn_StaleResponse ==
  /\ pc = "post"
  /\ sent' = Append(sent, [to |-> client, text |-> RequestText(client), headers |-> RequestHeaders(client, extraHeaders)])
  /\ \E st \in backend :
       /\ \/ attempt < MaxAttempts /\ LoopStep(attempt, st) = "return"
          \/ attempt = MaxAttempts
       /\ statuses' = Append(statuses, st)
       /\ IF st = ConnFail
            THEN /\ Throw(client, "ConnectionError", "transient")
                 /\ UNCHANGED respBody
            ELSE \E body \in Bodies :
                   /\ respBody' = body
                   /\ IF body = Malformed \/ attempt > 0
                        THEN Throw(client, "JSONDecodeError", "response")
                        ELSE Deliver(client, Items(client, body))
  /\ posts' = [posts EXCEPT ![client] = @ + 1]
  /\ UNCHANGED <<inputs, results, stage, qTemplate, qParams, execArgs, client, attempt, agentCalls,
                 execCalls, odbcExecs, odbcArgs, embedPosts>>

\* an iteration that returns the response (or, were the loop to end without
\* return or raise, the POST after the loop); the client then reads the body
PostReturn ==
  /\ pc = "post"
  /\ sent' = Append(sent, [to |-> client, text |-> RequestText(client), headers |-> RequestHeaders(client, extraHeaders)])
  /\ \E st \in backend :
       /\ \/ attempt < MaxAttempts /\ LoopStep(attempt, st) = "return"
          \/ attempt = MaxAttempts
       /\ statuses' = Append(statuses, st)
       /\ IF st = ConnFail
            THEN /\ Throw(client, "ConnectionError", "transient")
                 /\ UNCHANGED respBody
            ELSE \E body \in Bodies :
                   /\ respBody' = body
                   /\ IF body = Malformed
                        THEN Throw(client, "JSONDecodeError", "response")
                        ELSE Deliver(client, Items(client, body))
  /\ posts' = [posts EXCEPT ![client] = @ + 1]
  /\ UNCHANGED <<inputs, results, stage, qTemplate, qParams, execArgs, client, attempt, agentCalls,
                 execCalls, odbcExecs, odbcArgs, embedPosts>>

(***************************************************************************)
(* Requests to the orchestrator.                                           *)
(***************************************************************************)
Q_total_variance == <<"T","o","t","a","l"," ","v","a","r","i","a","n","c","e">>

Q_by_service == <<"v","a","r","i","a","n","c","e"," ","b","y"," ","s","e","r","v","i","c","e"," ","l","e","v",
  "e","l",":"," ","2","D","a","y">>

Q_on_time == <<"o","n"," ","t","i","m","e"," ","r","a","t","e"," ","f","o","r"," ","c","a","r","r","i","e",
  "r",":"," ","A","c","m","e"," ","l","a","s","t"," ","q","u","a","r","t","e","r">>

Q_email_from == <<"S","h","o","w"," ","m","e"," ","e","m","a","i","l"," ","f","r","o","m"," ","A","c","m","e">>

Q_recent_email == <<"s","h","o","w"," ","r","e","c","e","n","t"," ","e","m","a","i","l">>

Q_clause == <<"W","h","a","t"," ","d","o","e","s"," ","c","l","a","u","s","e"," ","7",".","4"," ","s","a",
  "y","?">>

Q_total_email == <<"t","o","t","a","l"," ","f","o","r"," ","t","h","e"," ","e","m","a","i","l"," ","f","r","o",
  "m"," ","B","o","b">>

Q_empty == <<>>

Q_variance_contoso ==
  <<"S","h","o","w"," ","v","a","r","i","a","n","c","e"," ","d","e","t","a","i","l","s"," ","f","o","r"," ","c","a","r","r","i","e","r",":"," ","C","o","n","t","o","s","o">>

S_test_bad_view == <<"S","E","L","E","C","T"," ","*"," ","F","R","O","M"," ","d","b","o",".","F","a","c","t","I",
  "n","v","o","i","c","e"," ","W","H","E","R","E"," ","C","a","r","r","i","e","r","=","@","c",
  "a","r","r","i","e","r">>

S_delete == <<"D","E","L","E","T","E"," ","F","R","O","M"," ","v","w","_","V","a","r","i","a","n","c","e">>

V_2024_01_01 == <<"2","0","2","4","-","0","1","-","0","1">>

V_2024_01_31 == <<"2","0","2","4","-","0","1","-","3","1">>

V_X == <<"X">>

V_Acme == <<"A","c","m","e">>

StrReq(text) == [kind |-> "str", text |-> text, template |-> "", params |-> EmptyParams]

TupleReq(template, params) ==
  [kind |-> "tuple", text |-> <<>>, template |-> template, params |-> params]

Window == (P_from :> V_2024_01_01) @@ (P_to :> V_2024_01_31)

OrchQueries ==
  {Q_total_variance, Q_by_service, Q_on_time, Q_email_from, Q_recent_email, Q_clause,
   Q_total_email, Q_empty, Q_variance_contoso}

OrchRequests ==
  {StrReq(q) : q \in OrchQueries}
    \cup {TupleReq(t, p) : t \in {"variance_summary", "missing"},
                           p \in {Window, (P_carrier :> V_X) @@ Window}}

\* registries a StructuredDataAgent can be built with: the default one, and
\* dictionaries passed as `templates`
OrchRegistries ==
  { TEMPLATES,
    [n \in {"variance_summary"} |-> S_test_bad_view],
    [n \in {"variance_summary"} |-> S_delete],
    [n \in {"fuel_surcharge_series"} |-> T_fuel_surcharge_series] }

OrchBackend == {200, 404, 503, ConnFail}

Dates == {[year |-> 2024, month |-> 2, day |-> 29]}

InitOrch ==
  InitWith(OrchEntries, OrchRequests, OrchRegistries, {"http", "odbc"}, BOOLEAN, BOOLEAN,
           {FALSE}, Dates, OrchBackend)

NextOrch ==
  \/ HandleTuple \/ HandleSql \/ HandleGraph \/ HandleOther
  \/ FallbackGraph \/ FallbackSearch
  \/ QueryUnknownTemplate \/ QueryBlocked \/ QueryExecute
  \/ RunSqlRejected \/ RunSqlOdbc \/ RunSqlHttp
  \/ Search \/ GetResource
  \/ PostRetry \/ PostRaise \/ PostReturn

SpecOrch == InitOrch /\ [][NextOrch]_vars


(***************************************************************************)
(* Direct calls of StructuredDataAgent.query, with the default registry    *)
(* and with registries passed as `templates`.                              *)
(***************************************************************************)
W_select_star == <<"S","E","L","E","C","T"," ","*"," ">>

W_FROM == <<"F","R","O","M">>

W_join == <<"j","o","i","n">>

W_sp == <<" ">>

W_nl_tab == <<"\n","	">>

I_vw_a == <<"v","w","_","A">>

I_dbo_t == <<"d","b","o",".","F","a","c","t","I","n","v","o","i","c","e">>

I_dbo_vw == <<"d","b","o",".","v","w","_","A">>

I_sys == <<"S","Y","S",".","o","b","j","e","c","t","s">>

I_info == <<"i","n","f","o","r","m","a","t","i","o","n","_","s","c","h","e","m","a",".","t","a","b","l",
  "e","s">>

I_plain == <<"I","n","v","o","i","c","e","s">>

I_db_dbo == <<"w","h",".","d","b","o",".","t">>

X_sp == <<" ">>

X_nl == <<"\n">>

X_open == <<"/","*">>

X_close == <<"*","/">>

X_slash == <<"/">>

X_dashes == <<"-","-">>

X_SELECT == <<"S","E","L","E","C","T">>

X_with == <<"w","i","t","h">>

X_delete == <<"D","E","L","E","T","E">>

X_x == <<"x","1">>

S_bypass == <<"/","*","/"," ","S","E","L","E","C","T"," ","1"," ","*","/"," ","D","E","L","E","T","E"," ",
  "F","R","O","M"," ","v","w","_","V","a","r","i","a","n","c","e">>

S_select_one == <<"S","E","L","E","C","T"," ","1"," ","W","H","E","R","E"," ","x","=","@","x">>

Q_q == <<"q">>

P_x == <<"@","x">>

V_1 == <<"1">>

\* all sequences of at most n elements of the set S
RECURSIVE SeqsUpTo(_, _)
SeqsUpTo(S, n) ==
  IF n = 0 THEN {<<>>}
  ELSE LET shorter == SeqsUpTo(S, n - 1) IN
       shorter \cup {Append(s, x) : s \in shorter, x \in S}

\* largest number of FROM / JOIN clauses in a generated template
MaxClauses == 2

TableIdents == {I_vw_a, I_dbo_t, I_dbo_vw, I_sys, I_info, I_plain, I_db_dbo}

\* one table reference: keyword, whitespace, identifier
Clauses ==
  {kw \o id \o W_sp : kw \in {W_FROM \o W_sp, W_join \o W_sp, W_join \o W_nl_tab},
                       id \in TableIdents}

GeneratedTemplates == {W_select_star \o Concat(cs) : cs \in SeqsUpTo(Clauses, MaxClauses)}

W_comma == <<",">>

\* a FROM clause that lists two tables: FROM vw_A, <table>
ListTemplates ==
  {W_select_star \o W_FROM \o W_sp \o I_vw_a \o W_comma \o W_sp \o id \o W_sp : id \in TableIdents}

\* every parameter map over the placeholders the orchestrator can produce
ParamValues ==
  (P_from :> V_2024_01_01) @@ (P_to :> V_2024_01_31) @@ (P_carrier :> V_Acme)
    @@ (P_sku :> V_X) @@ (P_service :> V_X)

ParamMaps == {[k \in K |-> ParamValues[k]] : K \in SUBSET (DOMAIN ParamValues)}

QueryReq(template, params) ==
  [kind |-> "tuple", text |-> <<>>, template |-> template, params |-> params]

SmallBackend == {200, 503}

InitQuery ==
  \/ InitWith({"query"},
              {QueryReq(t, p) : t \in {"variance_summary", "variance_by_service",
                                       "variance_trend_by_sku", "missing"},
                                p \in ParamMaps},
              {TEMPLATES}, {"http", "odbc"}, {FALSE}, {FALSE}, {FALSE}, Dates, SmallBackend)
  \/ InitWith({"query"},
              {QueryReq(t, (P_carrier :> V_X)) : t \in {"bad", "missing"}},
              {[n \in {"bad"} |-> s] :
                 s \in GeneratedTemplates \cup ListTemplates \cup {S_test_bad_view, S_delete}},
              {"http"}, {FALSE}, {FALSE}, {FALSE}, Dates, {200})

NextQuery ==
  \/ CallQuery
  \/ QueryUnknownTemplate \/ QueryBlocked \/ QueryExecute
  \/ RunSqlRejected \/ RunSqlOdbc \/ RunSqlHttp
  \/ PostRetry \/ PostRaise \/ PostReturn

SpecQuery == InitQuery /\ [][NextQuery]_vars

(***************************************************************************)
(* Direct calls of run_sql and run_sql_params on arbitrary statements.     *)
(***************************************************************************)
\* largest number of lexical pieces in a generated statement
MaxStmtPieces == 3

StmtPieces ==
  {X_sp, X_nl, X_open, X_close, X_slash, X_dashes, X_SELECT, X_with, X_delete, X_x}

Statements ==
  {Concat(ps) : ps \in SeqsUpTo(StmtPieces, MaxStmtPieces)}
    \cup {S_bypass, S_select_one, S_delete} \cup Range(TEMPLATES)

SqlReq(sql, params) == [kind |-> "sql", text |-> sql, template |-> "", params |-> params]

InitRunSql ==
  InitWith({"run_sql", "run_sql_params"},
           {SqlReq(s, (P_x :> V_1)) : s \in Statements},
           {TEMPLATES}, {"http", "odbc"}, {FALSE}, {FALSE}, {FALSE}, Dates, SmallBackend)

NextRunSql ==
  \/ CallRunSql
  \/ RunSqlRejected \/ RunSqlOdbc \/ RunSqlHttp
  \/ PostRetry \/ PostRaise \/ PostReturn

SpecRunSql == InitRunSql /\ [][NextRunSql]_vars

(***************************************************************************)
(* Direct calls of the three clients against every backend behaviour.      *)
(***************************************************************************)
InitClients ==
  InitWithEnv({"run_sql_params", "search", "get_resource"},
              {SqlReq(S_select_one, (P_x :> V_1))},
              {TEMPLATES}, {"http"}, {FALSE}, {FALSE}, BOOLEAN, Dates, Statuses,
              {0}, {{}}, ExtraHeaderSets)

NextClients ==
  \/ CallRunSql \/ RunSqlHttp
  \/ Search \/ GetResource
  \/ PostRetry \/ PostRaise \/ PostReturn

SpecClients == InitClients /\ [][NextClients]_vars

(***************************************************************************)
(* The directory-search path: get_resource called directly, and reached    *)
(* from the orchestrator by a graph decision or by the keyword fallback.   *)
(***************************************************************************)
InitGraph ==
  \/ InitWith({"get_resource"}, {StrReq(Q_email_from)},
              {TEMPLATES}, {"http"}, {TRUE}, {FALSE}, {FALSE}, Dates, Statuses)
  \/ InitWith(OrchEntries, {StrReq(q) : q \in {Q_email_from, Q_recent_email}},
              {TEMPLATES}, {"http"}, {TRUE}, BOOLEAN, {FALSE}, Dates, Statuses)

NextGraph ==
  \/ HandleGraph \/ HandleOther \/ FallbackGraph
  \/ GetResource
  \/ PostRetry \/ PostRaise \/ PostReturn

SpecGraph == InitGraph /\ [][NextGraph]_vars

(***************************************************************************)
(* handle_agent_query with Fabric and Search configured, Graph optional,   *)
(* AGENT_MAX_ROWS set, and any of the Power BI identifiers set.            *)
(***************************************************************************)
InitGateway ==
  InitWithEnv({"handle_agent_query"},
              {StrReq(q) : q \in {Q_total_variance, Q_by_service, Q_email_from, Q_recent_email,
                                  Q_clause}},
              {TEMPLATES}, {"http"}, BOOLEAN, {TRUE}, {FALSE}, Dates, SmallBackend,
              1..MaxRows, SUBSET PbiIds, {EmptyParams})

NextGateway ==
  \/ HandleSql \/ HandleGraph \/ HandleOther \/ FallbackGraph \/ FallbackSearch
  \/ QueryExecute \/ RunSqlHttp
  \/ Search \/ GetResource
  \/ PostRetry \/ PostRaise \/ PostReturn
  \/ GatewayReturn

SpecGateway == InitGateway /\ [][NextGateway]_vars

(***************************************************************************)
(* router.classify on texts made of the words the router looks for, of     *)
(* words the specification names, and of words it ignores.                 *)
(***************************************************************************)
N_rate == <<"r","a","t","e">>

N_sum == <<"s","u","m">>

N_count == <<"c","o","u","n","t">>

N_trend == <<"t","r","e","n","d">>

N_over_time == <<"o","v","e","r"," ","t","i","m","e">>

N_clause == <<"c","l","a","u","s","e"," ","7",".","4">>

N_TOTAL == <<"T","O","T","A","L">>

N_from == <<"f","r","o","m">>

Q_trend_carrier ==
  <<"S","h","o","w"," ","v","a","r","i","a","n","c","e"," ","t","r","e","n","d"," ","b","y"," ","m","o","n","t","h"," ","o","v","e","r"," ","t","i","m","e"," ","f","o","r"," ","c","a","r","r","i","e","r","s">>

Q_trend_sku ==
  <<"S","h","o","w"," ","v","a","r","i","a","n","c","e"," ","t","r","e","n","d"," ","b","y"," ","m","o","n","t","h"," ","f","o","r"," ","S","K","U"," ","8","1","2">>

\* largest number of words in a generated text
MaxWords == 2

RouterWords ==
  {K_variance, K_overbill, K_how_much, K_total, N_rate, N_sum, N_count, N_TOTAL,
   K_email_from, K_calendar_on, K_file_named, K_in_sharepoint, K_email, N_from,
   K_service, K_on_time_hyphen, K_on_time, K_sla, N_trend, N_over_time, K_carrier, K_sku,
   N_clause, Q_empty}

\* " ".join(words)
RECURSIVE JoinWords(_)
JoinWords(ws) ==
  IF ws = <<>> THEN <<>>
  ELSE IF Len(ws) = 1 THEN ws[1]
  ELSE ws[1] \o <<" ">> \o JoinWords(Tail(ws))

RouterTexts ==
  {JoinWords(ws) : ws \in SeqsUpTo(RouterWords, MaxWords)}
    \cup {<<" ", " ">>, <<"\t">>, <<"\n", " ">>}
    \cup OrchQueries \cup {Q_trend_carrier, Q_trend_sku}

InitRouter ==
  InitWith({"classify"}, {StrReq(t) : t \in RouterTexts},
           {TEMPLATES}, {"http"}, {FALSE}, {FALSE}, {FALSE}, Dates, {200})

NextRouter == Classify

SpecRouter == InitRouter /\ [][NextRouter]_vars

(***************************************************************************)
(* _infer_time_range on texts with each of its phrases, on the first, the  *)
(* fifteenth and the last day of every month of a run of years.            *)
(***************************************************************************)
Q_last_quarter == <<"H","o","w"," ","m","u","c","h"," ","w","e","r","e"," ","w","e"," ","o","v","e","r","b","i","l","l","e","d"," ","l","a","s","t"," ","q","u","a","r","t","e","r","?">>

Q_this_quarter == <<"v","a","r","i","a","n","c","e"," ","t","h","i","s"," ","q","u","a","r","t","e","r">>

Q_bare_quarter == <<"Q","u","a","r","t","e","r","l","y"," ","v","a","r","i","a","n","c","e">>

Q_LAST_QUARTER == <<"T","O","T","A","L"," ","L","A","S","T"," ","Q","U","A","R","T","E","R">>

Q_last_year == <<"t","o","t","a","l"," ","v","a","r","i","a","n","c","e"," ","l","a","s","t"," ","y","e","a","r">>

Q_this_year == <<"t","o","t","a","l"," ","t","h","i","s"," ","y","e","a","r">>

Q_last_month == <<"o","v","e","r","b","i","l","l","e","d"," ","l","a","s","t"," ","m","o","n","t","h">>

Q_this_month == <<"t","o","t","a","l"," ","t","h","i","s"," ","m","o","n","t","h">>

Q_quarter_and_year == <<"l","a","s","t"," ","q","u","a","r","t","e","r"," ","a","g","a","i","n","s","t"," ","t","h","i","s"," ","y","e","a","r">>

Q_quarter_and_month == <<"t","h","i","s"," ","q","u","a","r","t","e","r",","," ","l","a","s","t"," ","m","o","n","t","h">>

RangeTexts ==
  {Q_last_quarter, Q_this_quarter, Q_bare_quarter, Q_LAST_QUARTER, Q_last_year, Q_this_year, Q_last_month, Q_this_month, Q_quarter_and_year, Q_quarter_and_month,
   Q_clause, Q_empty}

\* the number of years the current date ranges over, from 2023 (2024 is a
\* leap year)
MaxYears == 2

RangeDates ==
  {[year |-> y, month |-> m, day |-> d] : y \in 2023..(2022 + MaxYears), m \in 1..12, d \in 1..31}

\* the first, the fifteenth and the last day of every month
ValidDates == {d \in RangeDates : d.day = 1 \/ d.day = 15 \/ d.day = DaysInMonth(d.year, d.month)}

InitRange ==
  InitWith({"_infer_time_range"}, {StrReq(t) : t \in RangeTexts},
           {TEMPLATES}, {"http"}, {FALSE}, {FALSE}, {FALSE}, ValidDates, {200})

NextRange == InferTimeRange

SpecRange == InitRange /\ [][NextRange]_vars

(***************************************************************************)
(* Concurrent calls of OrchestratorAgent.handle on one orchestrator, each  *)
(* on its own thread: the statements of every call run in order, those of  *)
(* different calls in any order. A dict is an object of the heap; a local   *)
(* variable holds a reference to it.                                       *)
(***************************************************************************)
\* the number of calls in flight
MaxRequests == 2

Requests == 1..MaxRequests

NoRef == <<"none", 0>>

\* what a backend answers: one item that names the backend and what it was
\* asked; the answer depends on the request alone
Answer(tool, request) == << [backend |-> tool, request |-> request] >>

\* why StructuredDataAgent.query or run_sql_params refuses a template
SqlFailure(template) ==
  IF template \notin DOMAIN templates THEN "ValueError"
  ELSE IF ~ViewOnlyOk(templates[template]) \/ ~ReadOnlyOk(templates[template])
    THEN "PermissionError"
  ELSE "none"

\* the backend the statements after the sql branch choose
FallbackTool(text) ==
  IF hasGraph /\ (classify(text).tool = "graph" \/ _needs_graph(text)) THEN "graph" ELSE "rag"

\* tuple query: template, params = query
ConcTuple(r) ==
  /\ cPc[r] = "start" /\ cReq[r].kind = "tuple"
  /\ cTemplate' = [cTemplate EXCEPT ![r] = cReq[r].template]
  /\ cRef' = [cRef EXCEPT ![r] = <<"caller", r>>]
  /\ cPc' = [cPc EXCEPT ![r] = "query"]
  /\ UNCHANGED <<single, cReq, heap, cPayload, cOut>>

\* decision = router.classify(query): the decision holds a new, empty dict
ConcClassify(r) ==
  /\ cPc[r] = "start" /\ cReq[r].kind = "str"
  /\ LET decision == classify(cReq[r].text) IN
     IF decision.tool = "sql"
       THEN /\ cTemplate' = [cTemplate EXCEPT ![r] = decision.name]
            /\ heap' = (<<"decision", r>> :> decision.params) @@ heap
            /\ cRef' = [cRef EXCEPT ![r] = <<"decision", r>>]
            /\ cPc' = [cPc EXCEPT ![r] = "range"]
       ELSE /\ cPc' = [cPc EXCEPT ![r] = "fallback"]
            /\ UNCHANGED <<cTemplate, heap, cRef>>
  /\ UNCHANGED <<single, cReq, cPayload, cOut>>

\* the merged parameters kept in a dict of the orchestrator, self._params,
\* which every call on it clears and fills
ConcInferRange_OnSelf(r) ==
  /\ cPc[r] = "range"
  /\ heap' = (<<"self", 0>> :> (_infer_time_range(cReq[r].text, today) @@ heap[cRef[r]]))
               @@ heap
  /\ cRef' = [cRef EXCEPT ![r] = <<"self", 0>>]
  /\ cPc' = [cPc EXCEPT ![r] = "filters"]
  /\ UNCHANGED <<single, cReq, cTemplate, cPayload, cOut>>

\* params = {**params, **_infer_time_range(query)}: a new dict
ConcInferRange(r) ==
  /\ cPc[r] = "range"
  /\ LET params == heap[cRef[r]] IN
     IF P_from \notin DOMAIN params \/ P_to \notin DOMAIN params
       THEN /\ heap' = (<<"merged", r>> :> (_infer_time_range(cReq[r].text, today) @@ params))
                         @@ heap
            /\ cRef' = [cRef EXCEPT ![r] = <<"merged", r>>]
       ELSE UNCHANGED <<heap, cRef>>
  /\ cPc' = [cPc EXCEPT ![r] = "filters"]
  /\ UNCHANGED <<single, cReq, cTemplate, cPayload, cOut>>

\* params["@carrier"] = carrier, and the same for sku and service: writes to
\* the dict params refers to
ConcSetFilters(r) ==
  /\ cPc[r] = "filters"
  /\ LET text == cReq[r].text
         carrier == extract_param_value(text, K_carrier)
         sku     == extract_param_value(text, K_sku)
         sl      == extract_param_value(text, K_service_level)
         service == IF sl # <<>> THEN sl ELSE extract_param_value(text, K_service)
         p0 == heap[cRef[r]]
         p1 == IF carrier # <<>> THEN (P_carrier :> carrier) @@ p0 ELSE p0
         p2 == IF sku # <<>> THEN (P_sku :> sku) @@ p1 ELSE p1
         p3 == IF service # <<>> THEN (P_service :> service) @@ p2 ELSE p2
     IN heap' = [heap EXCEPT ![cRef[r]] = p3]
  /\ cPc' = [cPc EXCEPT ![r] = "query"]
  /\ UNCHANGED <<single, cReq, cRef, cTemplate, cPayload, cOut>>

\* StructuredDataAgent.query and run_sql_params up to the POST: the template
\* is read from the registry, the parameters from the dict; a failure leaves
\* a tuple call as an exception and a string call through `except: pass`
ConcQuery(r) ==
  /\ cPc[r] = "query"
  /\ LET failure == SqlFailure(cTemplate[r]) IN
     IF failure = "none"
       THEN /\ cPayload' = [cPayload EXCEPT ![r] =
                              [query |-> templates[cTemplate[r]], parameters |-> heap[cRef[r]]]]
            /\ cPc' = [cPc EXCEPT ![r] = "post"]
            /\ UNCHANGED cOut
       ELSE IF cReq[r].kind = "tuple"
         THEN /\ cOut' = [cOut EXCEPT ![r] = Raised(failure, "query")]
              /\ cPc' = [cPc EXCEPT ![r] = "done"]
              /\ UNCHANGED cPayload
         ELSE /\ cPc' = [cPc EXCEPT ![r] = "fallback"]
              /\ UNCHANGED <<cPayload, cOut>>
  /\ UNCHANGED <<single, cReq, cRef, heap, cTemplate>>

\* the SQL backend answers the POST
ConcRespond(r) ==
  /\ cPc[r] = "post"
  /\ cOut' = [cOut EXCEPT ![r] = Returned(Answer("sql", cPayload[r]))]
  /\ cPc' = [cPc EXCEPT ![r] = "done"]
  /\ UNCHANGED <<single, cReq, cRef, heap, cTemplate, cPayload>>

\* get_resource(query) or search(query) with the raw text
ConcFallback(r) ==
  /\ cPc[r] = "fallback"
  /\ cOut' = [cOut EXCEPT ![r] = Returned(Answer(FallbackTool(cReq[r].text), cReq[r].text))]
  /\ cPc' = [cPc EXCEPT ![r] = "done"]
  /\ UNCHANGED <<single, cReq, cRef, heap, cTemplate, cPayload>>

ConcRequests ==
  <<StrReq(Q_on_time), StrReq(Q_variance_contoso), StrReq(Q_by_service), StrReq(Q_recent_email),
    TupleReq("variance_summary", Window), TupleReq("missing", (P_carrier :> V_X) @@ Window)>>

InitConc ==
  /\ InitSingle({"handle"}, {StrReq(Q_empty)}, {TEMPLATES}, {"http"}, BOOLEAN, {FALSE}, {FALSE},
                Dates, {200}, {0}, {{}}, {EmptyParams})
  \* the calls are interchangeable (any of them may take any step at any
  \* time), so the requests are dealt out in the order of the list
  /\ \E ix \in [Requests -> DOMAIN ConcRequests] :
       /\ \A a, b \in Requests : a < b => ix[a] <= ix[b]
       /\ cReq = [r \in Requests |-> ConcRequests[ix[r]]]
  /\ cPc = [r \in Requests |-> "start"]
  /\ cRef = [r \in Requests |-> NoRef]
  /\ heap = [o \in {<<"caller", r>> : r \in {x \in Requests : cReq[x].kind = "tuple"}} |->
               cReq[o[2]].params]
  /\ cTemplate = [r \in Requests |-> ""]
  /\ cPayload = [r \in Requests |-> [query |-> <<>>, parameters |-> EmptyParams]]
  /\ cOut = [r \in Requests |-> Pending]

NextConc ==
  \E r \in Requests :
    \/ ConcTuple(r) \/ ConcClassify(r) \/ ConcInferRange(r) \/ ConcSetFilters(r)
    \/ ConcQuery(r) \/ ConcRespond(r) \/ ConcFallback(r)

SpecConc == InitConc /\ [][NextConc]_vars

(***************************************************************************)
(* Properties.                                                             *)
(***************************************************************************)
Done == pc = "done"

NoPosts == \A c \in Clients : posts[c] = 0

\* C1: when the template lookup or a guardrail fails for a free-text query
\* routed to SQL, handle / handle_with_citations surface the failure to the
\* caller, call no backend and answer with no other tool.
C1_GuardrailFailureAborts ==
  (Done /\ entry \in OrchEntries /\ req.kind = "str"
        /\ sqlError \in {"unknown_template", "view_only", "read_only"})
    => /\ outcome.kind = "raise" /\ outcome.cause = sqlError
       /\ agentCalls = <<"sql">>
       /\ NoPosts /\ odbcExecs = 0

\* C3: one request to handle / handle_with_citations makes the orchestrator
\* call exactly one of its three backends (structured agent, unstructured
\* agent, graph service), whatever the outcome of that call.
C3_ExactlyOneBackend ==
  (Done /\ entry \in OrchEntries) => Len(agentCalls) = 1

\* C4: when the SQL client exhausts its retries on transient errors for a
\* free-text query routed to SQL, the orchestrator raises to its caller and
\* returns nothing produced by document search or directory search.
C4_SqlExhaustionPropagates ==
  (Done /\ entry \in OrchEntries /\ req.kind = "str" /\ sqlError = "transient")
    => outcome.kind = "raise"

\* C2: the parameters StructuredDataAgent.query forwards to run_sql_params are
\* exactly the raw parameters whose keys occur verbatim in the template text.
C2_ForwardsOnlyPlaceholdersInText ==
  (entry = "query" /\ execCalls > 0)
    => execArgs[2] = [k \in {p \in DOMAIN req.params : Contains(execArgs[1], p)} |->
                        req.params[k]]

\* C5 as stated: with all three backends configured, the backend called for a
\* free-text query is the one classify selected.
C5_BackendIsClassifierChoice ==
  (Done /\ entry \in OrchEntries /\ req.kind = "str" /\ hasGraph)
    => agentCalls = <<classify(req.text).tool>>

\* the words that send a query the classifier did not route to sql or graph
\* to the directory-search client
C5_GraphWords == {K_email, K_calendar, K_file, K_meeting}

C5_Expected(text) ==
  LET tool == classify(text).tool IN
  IF tool = "rag" /\ (\E w \in C5_GraphWords : Contains(Lower(text), w))
    THEN "graph" ELSE tool

\* C5 amended: with all three backends configured, the backend the
\* orchestrator calls first for a free-text query is the one classify
\* selected, except that a query classified rag that contains email,
\* calendar, file or meeting is sent to the directory-search client.
C5_FirstBackendFollowsClassifier ==
  (entry \in OrchEntries /\ req.kind = "str" /\ hasGraph /\ agentCalls # <<>>)
    => agentCalls[1] = C5_Expected(req.text)

\* a rag-classified query with such a word was answered by directory search
C5_Witness ==
  /\ Done /\ entry \in OrchEntries /\ req.kind = "str" /\ hasGraph
  /\ classify(req.text).tool = "rag"
  /\ agentCalls = <<"graph">>
  /\ outcome.kind = "return"

\* the statement that is left when leading whitespace, block comments
\* (from the opening to the first closing delimiter after it) and line
\* comments are removed, as a SQL lexer removes them
RECURSIVE C6_SkipComments(_)
C6_SkipComments(s0) ==
  LET s == LStrip(s0) IN
  IF StartsWith(s, <<"/", "*">>)
    THEN LET closes == {i \in 3..(Len(s) - 1) : s[i] = "*" /\ s[i + 1] = "/"} IN
         IF closes = {} THEN <<>>
         ELSE C6_SkipComments(Drop(s, (CHOOSE i \in closes : \A j \in closes : i <= j) + 2))
  ELSE IF StartsWith(s, <<"-", "-">>)
    THEN LET ends == {i \in 1..Len(s) : s[i] = "\n"} IN
         IF ends = {} THEN <<>>
         ELSE C6_SkipComments(Drop(s, (CHOOSE i \in ends : \A j \in ends : i <= j) + 1))
  ELSE s

C6_FirstKeyword(sql) ==
  LET s == C6_SkipComments(sql)
      n == CHOOSE k \in 0..Len(s) :
             /\ \A i \in 1..k : s[i] \in LetterSet
             /\ (k = Len(s) \/ s[k + 1] \notin LetterSet)
  IN  Lower(SubSeq(s, 1, n))

\* C6: run_sql and run_sql_params raise PermissionError, before any POST or
\* ODBC execution, for every statement whose first keyword after leading
\* whitespace and comments is not SELECT or WITH.
C6_NonSelectRejected ==
  (entry \in {"run_sql", "run_sql_params"} /\ pc \notin {"start", "run_sql", "run_sql_params"}
     /\ C6_FirstKeyword(req.text) \notin {KwSelect, KwWith})
    => /\ outcome = Raised("PermissionError", "read_only")
       /\ NoPosts /\ odbcExecs = 0

C7_Denied ==
  { <<"d","b","o",".">>, <<"s","y","s",".">>,
    <<"i","n","f","o","r","m","a","t","i","o","n","_","s","c","h","e","m","a",".">> }

\* the name is under a disallowed prefix and is not a view name (vw_...,
\* possibly schema-qualified)
C7_IsDeniedTable(name) ==
  /\ \E p \in C7_Denied : StartsWith(Lower(name), p)
  /\ ~StartsWith(Lower(name), <<"v","w","_">>)
  /\ ~Contains(Lower(name), <<".","v","w","_">>)

\* some FROM or JOIN keyword of the text is followed by whitespace and then
\* by a disallowed table name
C7_RefersToDeniedTable(sql) ==
  \E kw \in {KwFrom, KwJoin} : \E i \in 1..Len(sql) :
    /\ i + Len(kw) - 1 <= Len(sql)
    /\ \A j \in 1..Len(kw) : LowerChar(sql[i + j - 1]) = kw[j]
    /\ (i = 1 \/ sql[i - 1] \notin WordChars)
    /\ \E a \in (i + Len(kw) + 1)..Len(sql) :
         /\ \A j \in (i + Len(kw))..(a - 1) : sql[j] \in SpaceChars
         /\ sql[a] \notin SpaceChars
         /\ \E b \in a..Len(sql) :
              /\ \A j \in a..b : sql[j] \in WordChars \cup {"."}
              /\ (b = Len(sql) \/ sql[b + 1] \notin WordChars \cup {"."})
              /\ C7_IsDeniedTable(SubSeq(sql, a, b))

C8_UnknownTemplateIsValueError ==
  (entry = "query" /\ pc \notin {"start", "query"} /\ req.template \notin DOMAIN templates)
    => /\ outcome = Raised("ValueError", "unknown_template")
       /\ execCalls = 0 /\ NoPosts /\ odbcExecs = 0

C8_Witness ==
  /\ Done /\ entry = "query" /\ req.template = "missing"
  /\ outcome.kind = "raise" /\ outcome.exc = "ValueError"

C10_OnlyTransientRetried ==
  \A i \in 1..(Len(statuses) - 1) : statuses[i] \in {429, 500, 502, 503, 504, ConnFail}

\* C11: when all 3 attempts of run_sql_params or of search fail, each with a
\* retryable status or a connection failure, the error of the last attempt
\* is raised to the caller and no result is returned.
C11_ExhaustionRaisesLastError ==
  (Done /\ entry \in {"run_sql_params", "search"}
        /\ Len(statuses) = 3
        /\ \A i \in 1..3 : statuses[i] \in {429, 500, 502, 503, 504, ConnFail})
    => /\ outcome.kind = "raise"
       /\ outcome.exc = (IF statuses[3] = ConnFail THEN "ConnectionError" ELSE "HTTPError")

\* search answered 503, 503 and then lost the connection
C11_Witness ==
  /\ Done /\ entry = "search"
  /\ statuses = <<503, 503, ConnFail>>
  /\ outcome = Raised("ConnectionError", "transient")

\* what a client entry point makes of a 200 response with body b
C12_ResultOf(e, b) ==
  IF b # Malformed THEN Returned(IF e = "search" THEN Passages(b) ELSE Rows(b))
  ELSE IF e = "get_resource" THEN Returned(<<>>)
  ELSE Raised("JSONDecodeError", "response")

\* C12: for each of the three clients, a call whose first attempt fails with
\* 500, 502 or 503 and whose second attempt succeeds returns what a call
\* returns whose first attempt succeeds with the same response body: in both
\* cases the result is the same function of the client and the body.
C12_RetryThenSuccessSameResult ==
  (Done /\ entry \in {"run_sql_params", "search", "get_resource"}
        /\ \/ statuses = <<200>>
           \/ \E s \in {500, 502, 503} : statuses = <<s, 200>>)
    => outcome = C12_ResultOf(entry, respBody)

\* directory search answered 502 and then 200 with two hits
C12_Witness ==
  /\ Done /\ entry = "get_resource"
  /\ statuses = <<502, 200>>
  /\ respBody = 2
  /\ outcome = Returned(Rows(2))

\* the list the caller of the directory-search path receives
C13_ResultList ==
  IF entry = "handle_with_citations" THEN outcome.value.result ELSE outcome.value

\* the last POST did not answer 200 with a well-formed body
C13_BackendFailed == statuses[Len(statuses)] # 200 \/ respBody = Malformed

\* C13: get_resource never raises: whatever the backend does (error status
\* on every attempt, connection failure, malformed response) it returns a
\* list, the empty one when the call failed; the orchestrator then returns
\* the empty list for a directory-search query, not an exception.
C13_GraphNeverRaises ==
  (Done /\ client = "graph")
    => /\ outcome.kind = "return"
       /\ C13_BackendFailed => C13_ResultList = <<>>

\* the backend answered 500 three times to handle("show recent email")
C13_Witness ==
  /\ Done /\ entry = "handle" /\ req.text = Q_recent_email
  /\ statuses = <<500, 500, 500>>
  /\ outcome = Returned(<<>>)

\* the items the backend sent in the response the answer was built from
C14_BackendItems ==
  IF respBody \notin 0..(MaxRows + 1) THEN <<>>
  ELSE IF client = "rag" /\ hasMeta THEN Take(Items(client, respBody), 5)
  ELSE Items(client, respBody)

\* C14: the envelope handle_agent_query returns caps the result at
\* AGENT_MAX_ROWS: result is the first min(total, max) items in their order,
\* resultTotal the uncapped count, resultReturned = min(resultTotal, max)
\* and truncated = (resultReturned < resultTotal).
C14_EnvelopeCapped ==
  (Done /\ entry = "handle_agent_query" /\ outcome.kind = "return")
    => LET p == outcome.value
           total == Len(C14_BackendItems)
           kept == IF total < envMaxRows THEN total ELSE envMaxRows
       IN  /\ p.result = SubSeq(C14_BackendItems, 1, kept)
           /\ {"resultTotal", "resultReturned", "truncated"} \subseteq DOMAIN p
           /\ p.resultTotal = total
           /\ p.resultReturned = kept
           /\ p.truncated = (kept < total)

\* the text names no period: none of last / this year, last / this month, quarter
C15_NoTimePhrase(text) ==
  \A k \in {K_last_year, K_this_year, K_last_month, K_this_month, K_quarter} :
    ~Contains(Lower(text), k)

\* the number yyyymmdd of a date written yyyy-mm-dd
C15_DateNumber(d) ==
  LET v(i) == CHOOSE n \in 0..9 : Digits[n + 1] = d[i] IN
  (v(1) * 1000 + v(2) * 100 + v(3) * 10 + v(4)) * 10000
    + (v(6) * 10 + v(7)) * 100 + v(9) * 10 + v(10)

\* C15: for a free-text query routed to SQL that contains no time phrase,
\* the parameter map passed to the structured agent contains @from and @to
\* with @from <= @to.
C15_DefaultTimeRange ==
  (entry \in OrchEntries /\ req.kind = "str" /\ agentCalls # <<>> /\ agentCalls[1] = "sql"
     /\ C15_NoTimePhrase(req.text))
    => /\ P_from \in DOMAIN qParams
       /\ P_to \in DOMAIN qParams
       /\ C15_DateNumber(qParams[P_from]) <= C15_DateNumber(qParams[P_to])

\* the text contains a keyword of the router's first rule
C16_Numeric(text) == \E k \in SqlKeywords : Contains(Lower(text), k)

\* the text contains a keyword of the router's second rule
C16_Directory(text) == \E k \in GraphKeywords : Contains(Lower(text), k)

C17_Expected(text) ==
  LET q == Lower(text) IN
  IF Contains(q, K_service) THEN "variance_by_service"
  ELSE IF Contains(q, K_on_time_hyphen) \/ Contains(q, K_on_time) \/ Contains(q, K_sla)
    THEN "on_time_rate"
  ELSE IF (Contains(q, N_trend) \/ Contains(q, N_over_time)) /\ Contains(q, K_carrier)
    THEN "variance_trend_by_carrier"
  ELSE IF (Contains(q, N_trend) \/ Contains(q, N_over_time)) /\ Contains(q, K_sku)
    THEN "variance_trend_by_sku"
  ELSE "variance_summary"

\* C17: for a text classified SQL the template is chosen by secondary
\* keywords: service wording gives variance_by_service, else on-time / SLA
\* wording gives on_time_rate, else trend / over-time wording with carrier
\* gives variance_trend_by_carrier and with SKU variance_trend_by_sku, else
\* variance_summary.
C17_TemplateBySecondaryKeywords ==
  (Done /\ entry = "classify" /\ outcome.value.tool = "sql")
    => outcome.value.name = C17_Expected(req.text)

\* the numeric / financial keywords as the specification lists them
C18_Keywords == {K_variance, K_overbill, N_sum, N_count, N_rate, K_how_much, K_total}

\* C18: classify returns the SQL tool for every text that contains one of
\* variance, overbill, sum, count, rate, "how much", total, also when the
\* keyword is the last word of the text.
C18_NumericKeywordIsSql ==
  (Done /\ entry = "classify" /\ \E k \in C18_Keywords : Contains(Lower(req.text), k))
    => outcome.value.tool = "sql"

\* C19: classify on an empty or whitespace-only text does not raise and
\* returns the RAG tool with the intent name contract_lookup and empty
\* params.
C19_BlankTextIsRagDefault ==
  (Done /\ entry = "classify" /\ \A i \in DOMAIN req.text : req.text[i] \in {" ", "\t", "\n"})
    => /\ outcome.kind = "return"
       /\ outcome.value = [tool |-> "rag", name |-> "contract_lookup", params |-> EmptyParams]

\* a text of two blanks was classified
C19_Witness ==
  /\ Done /\ entry = "classify"
  /\ req.text = <<" ", " ">>
  /\ outcome.value.tool = "rag"

\* C20: a pre-formed (template, params) request given to handle bypasses
\* classification and time-range inference: the structured agent is called
\* exactly once, with that template name and the caller's parameter map, no
\* other backend is called, and what the agent returns or raises is what
\* handle returns or raises.
C20_TupleBypassesRouting ==
  (entry = "handle" /\ req.kind = "tuple" /\ pc # "start")
    => /\ agentCalls = <<"sql">>
       /\ qTemplate = req.template
       /\ qParams = req.params
       /\ posts["rag"] = 0 /\ posts["graph"] = 0 /\ embedPosts = 0
       /\ swallowed = "none"
       /\ (Done /\ outcome.kind = "raise") => outcome.cause = sqlError
       /\ (Done /\ outcome.kind = "return" /\ mode = "http") => outcome.value = Rows(respBody)
       /\ (Done /\ outcome.kind = "return" /\ mode = "odbc")
            => outcome.value = Rows(Len(outcome.value))

\* handle(("variance_summary", {@carrier, @from, @to})) returned the rows
C20_Witness ==
  /\ Done /\ entry = "handle"
  /\ req = TupleReq("variance_summary", (P_carrier :> V_X) @@ Window)
  /\ qParams = (P_carrier :> V_X) @@ Window
  /\ agentCalls = <<"sql">>
  /\ outcome = Returned(Rows(2))
\* C21: every envelope handle_with_citations returns for the SQL path has
\* tool fabric_sql and exactly one citation, of type table, with the template
\* name and the parameter map that went to the structured agent and on to
\* run_sql_params; sampleRows is the first min(3, n) rows of the n rows of
\* the result, in order.
C21_SqlAnswered ==
  /\ entry = "handle_with_citations" /\ Done /\ outcome.kind = "return"
  /\ agentCalls = <<"sql">>

C21_SqlEnvelope ==
  C21_SqlAnswered =>
    LET env == outcome.value
        n == Len(env.result)
    IN /\ env.tool = "fabric_sql"
       /\ mode = "http" => env.result = Rows(respBody)
       /\ Len(env.citations) = 1
       /\ env.citations[1].type = "table"
       /\ env.citations[1].template =
            (IF req.kind = "tuple" THEN req.template ELSE classify(req.text).name)
       /\ env.citations[1].parameters = execArgs[2]
       /\ req.kind = "tuple" => env.citations[1].parameters = req.params
       /\ Len(env.sampleRows) = (IF n < 3 THEN n ELSE 3)
       /\ \A i \in 1..Len(env.sampleRows) : env.sampleRows[i] = env.result[i]

\* a free-text question answered by the SQL backend with more than three rows
C21_Witness ==
  /\ C21_SqlAnswered /\ req.kind = "str"
  /\ Len(outcome.value.result) > 3 /\ Len(outcome.value.sampleRows) = 3

\* C22: every envelope of the document-search path, built from the documents
\* of search_with_meta or from the plain list of search, has at most five
\* citations however many passages came back; citation i is of type passage,
\* has rank i and as excerpt the first 200 characters of the i-th passage
\* (the whole passage when it is shorter).
C22_SearchAnswered ==
  /\ entry = "handle_with_citations" /\ Done /\ outcome.kind = "return"
  /\ outcome.value.tool = "ai_search"

C22_SearchEnvelope ==
  C22_SearchAnswered =>
    LET cits == outcome.value.citations
        found == Passages(respBody)
    IN /\ Len(cits) <= 5
       /\ Len(cits) = (IF respBody < 5 THEN respBody ELSE 5)
       /\ \A i \in 1..Len(cits) :
            /\ cits[i].type = "passage"
            /\ cits[i].rank = i
            /\ Len(cits[i].excerpt) <= 200
            /\ cits[i].excerpt =
                 [k \in 1..(IF Len(found[i]) < 200 THEN Len(found[i]) ELSE 200) |-> found[i][k]]

\* more than five passages came back, the first of them longer than an
\* excerpt, and the envelope was built from the plain list
C22_Witness ==
  /\ C22_SearchAnswered /\ ~hasMeta
  /\ respBody > 5 /\ Len(Passages(respBody)[1]) > 200
  /\ Len(outcome.value.result) > 5
  /\ Len(outcome.value.citations) = 5
  /\ Len(outcome.value.citations[1].excerpt) = 200

\* the same answer built from the documents of search_with_meta
C22_WitnessMeta ==
  /\ C22_SearchAnswered /\ hasMeta
  /\ respBody > 5 /\ Len(outcome.value.result) = 5
  /\ Len(outcome.value.citations) = 5

\* C23: handle_agent_query attaches powerBiLink only to an envelope whose tool
\* is fabric_sql and only when both PBI_WORKSPACE_ID and PBI_REPORT_ID are
\* configured; an ai_search or graph envelope never carries it, and with
\* either identifier absent no envelope carries it.
C23_GatewayAnswered ==
  entry = "handle_agent_query" /\ Done /\ outcome.kind = "return"

C23_HasLink == "powerBiLink" \in DOMAIN outcome.value

C23_LinkOnlyForConfiguredSql ==
  C23_GatewayAnswered =>
    /\ C23_HasLink => outcome.value.tool = "fabric_sql" /\ PbiIds \subseteq envPbi
    /\ outcome.value.tool \in {"ai_search", "graph"} => ~C23_HasLink
    /\ envPbi # PbiIds => ~C23_HasLink

\* a SQL answer with both identifiers configured carries the link
C23_Witness ==
  /\ C23_GatewayAnswered /\ outcome.value.tool = "fabric_sql"
  /\ envPbi = PbiIds /\ C23_HasLink

\* a document-search answer with both identifiers configured carries none
C23_WitnessSearch ==
  /\ C23_GatewayAnswered /\ outcome.value.tool = "ai_search"
  /\ envPbi = PbiIds /\ ~C23_HasLink

\* C24: every outbound call of the SQL, document-search and directory-search
\* clients, on every attempt of the retry loop, carries a User-Agent header
\* that begins with LeftTurn/ and every header the caller supplied as
\* extra_headers (the correlation header), with its value unchanged.
C24_ProductPrefix == <<"L", "e", "f", "t", "T", "u", "r", "n", "/">>

C24_Traceable(h) ==
  /\ "User-Agent" \in DOMAIN h
  /\ StartsWith(h["User-Agent"], C24_ProductPrefix)
  /\ \A k \in DOMAIN extraHeaders : k \in DOMAIN h /\ h[k] = extraHeaders[k]

C24_EveryCallTraceable == \A i \in DOMAIN sent : C24_Traceable(sent[i].headers)

\* the same of the calls to the three backends only, leaving aside the call
\* the document-search client makes to the embedding endpoint
C24_BackendCallsTraceable ==
  \A i \in DOMAIN sent : sent[i].to \in Clients => C24_Traceable(sent[i].headers)

\* three attempts of one call, each with the correlation header
C24_RetriesReached ==
  /\ extraHeaders = CorrelationHeader
  /\ Len(sent) >= 3 /\ \A i \in DOMAIN sent : sent[i].to = "graph"

\* C25: under any interleaving of concurrently processed requests no shared
\* mutable state is written: the template registry stays as it was, the
\* parameter dict of a request is referenced by no other request and holds
\* what the request alone put into it, and every request ends with the
\* outcome it has when it runs alone.
C25_ParamsAlone(q) ==
  IF q.kind = "tuple" THEN q.params ELSE BuildSqlParams(q.text, classify(q.text), today)

C25_TemplateAlone(q) == IF q.kind = "tuple" THEN q.template ELSE classify(q.text).name

C25_OutcomeAlone(q) ==
  LET wantsSql == q.kind = "tuple" \/ classify(q.text).tool = "sql"
      failure == SqlFailure(C25_TemplateAlone(q))
  IN IF wantsSql /\ failure = "none"
       THEN Returned(Answer("sql", [query |-> TEMPLATES[C25_TemplateAlone(q)],
                                    parameters |-> C25_ParamsAlone(q)]))
     ELSE IF q.kind = "tuple" THEN Raised(failure, "query")
     ELSE Returned(Answer(FallbackTool(q.text), q.text))

C25_NoSharedWrites ==
  /\ templates = TEMPLATES
  /\ \A r1, r2 \in DOMAIN cRef :
       r1 # r2 /\ cRef[r1] # NoRef => cRef[r1] # cRef[r2]
  /\ \A r \in DOMAIN cPc :
       /\ cPc[r] = "post" => cPayload[r].parameters = C25_ParamsAlone(cReq[r])
       /\ cPc[r] = "done" => cOut[r] = C25_OutcomeAlone(cReq[r])

\* two free-text requests with different parameters in flight at once, the
\* first finished after the second built its parameters
C25_Witness ==
  /\ cReq # <<>>
  /\ cReq[1].kind = "str" /\ cReq[2].kind = "str"
  /\ cPc[1] = "done" /\ cPc[2] = "query"
  /\ cOut[1] = C25_OutcomeAlone(cReq[1])
  /\ cOut[1].kind = "return" /\ cOut[1].value[1].backend = "sql"
  /\ heap[cRef[2]] # cOut[1].value[1].request.parameters

\* C26: the view-only check rejects a template if and only if some table the
\* template references is not named as a curated view (vw_..., in any case,
\* possibly qualified by a schema) and is named under dbo., sys. or
\* information_schema.; a table that is neither is accepted, and every table
\* the template references is examined: the one that follows FROM or JOIN and
\* the ones a FROM list adds after a comma.
C26_NameChars == WordChars \cup {"."}

\* sql[a..b] is a whole identifier
C26_IdentAt(sql, a, b) ==
  /\ 1 <= a /\ a <= b /\ b <= Len(sql)
  /\ \A j \in a..b : sql[j] \in C26_NameChars
  /\ (a = 1 \/ sql[a - 1] \notin C26_NameChars)
  /\ (b = Len(sql) \/ sql[b + 1] \notin C26_NameChars)

\* position a follows a FROM or JOIN keyword and whitespace
C26_AfterKeyword(sql, a) ==
  \E kw \in {KwFrom, KwJoin} : \E i \in 1..(a - Len(kw) - 1) :
    /\ \A j \in 1..Len(kw) : LowerChar(sql[i + j - 1]) = kw[j]
    /\ (i = 1 \/ sql[i - 1] \notin WordChars)
    /\ \A j \in (i + Len(kw))..(a - 1) : sql[j] \in SpaceChars

\* position a follows the comma after the table of a FROM or JOIN
C26_AfterComma(sql, a) ==
  \E c \in 1..(a - 1) :
    /\ sql[c] = ","
    /\ \A j \in (c + 1)..(a - 1) : sql[j] \in SpaceChars
    /\ \E b0 \in 1..(c - 1) :
         /\ \A j \in (b0 + 1)..(c - 1) : sql[j] \in SpaceChars
         /\ \E a0 \in 1..b0 : C26_IdentAt(sql, a0, b0) /\ C26_AfterKeyword(sql, a0)

C26_TablesReferenced(sql) ==
  { SubSeq(sql, a, b) : <<a, b>> \in
      { p \in (1..Len(sql)) \X (1..Len(sql)) :
          /\ sql[p[1]] \in C26_NameChars
          /\ C26_IdentAt(sql, p[1], p[2])
          /\ (C26_AfterKeyword(sql, p[1]) \/ C26_AfterComma(sql, p[1])) } }

\* the object named is a view: its last component begins with vw_
C26_IsView(n) ==
  LET nl == Lower(n)
      dots == {i \in 1..Len(nl) : nl[i] = "."}
      last == IF dots = {} THEN 0 ELSE CHOOSE i \in dots : \A j \in dots : j <= i
  IN StartsWith(SubSeq(nl, last + 1, Len(nl)), ViewPrefix)

C26_IsDenied(n) ==
  ~C26_IsView(n) /\ \E p \in DeniedPrefixes : StartsWith(Lower(n), p)

C26_RejectedIffDeniedTable ==
  (entry = "query" /\ pc \notin {"start", "query"} /\ req.template = "bad"
     /\ req.template \in DOMAIN templates)
    => ( outcome = Raised("PermissionError", "view_only")
           <=> \E n \in C26_TablesReferenced(templates[req.template]) : C26_IsDenied(n) )

\* the same of the tables that directly follow FROM or JOIN
C26_RejectedIffDeniedName ==
  (entry = "query" /\ pc \notin {"start", "query"} /\ req.template = "bad"
     /\ req.template \in DOMAIN templates)
    => LET sql == templates[req.template]
           named == { SubSeq(sql, p[1], p[2]) : p \in
                        { p \in (1..Len(sql)) \X (1..Len(sql)) :
                            /\ sql[p[1]] \in C26_NameChars
                            /\ C26_IdentAt(sql, p[1], p[2])
                            /\ C26_AfterKeyword(sql, p[1]) } }
       IN outcome = Raised("PermissionError", "view_only")
            <=> \E n \in named : C26_IsDenied(n)

\* C27: for every current date, _infer_time_range on a text containing "last
\* quarter" returns the first and the last calendar day of the quarter before
\* the current one (the fourth quarter of the previous year when the current
\* quarter is the first), on a text containing "this quarter" or a bare
\* "quarter" the first and the last day of the current quarter, and in every
\* non-empty result @from <= @to and both dates lie in the same quarter.
C27_Called == entry = "_infer_time_range" /\ Done

C27_QuarterOf(m) == ((m - 1) \div 3) + 1

\* the numbers yyyymmdd of the first and of the last day of quarter k of year y
C27_QuarterStart(y, k) == y * 10000 + (3 * k - 2) * 100 + 1

C27_QuarterEnd(y, k) == y * 10000 + (3 * k) * 100 + (IF k \in {2, 3} THEN 30 ELSE 31)

C27_IsQuarter(r, y, k) ==
  /\ DOMAIN r = {P_from, P_to}
  /\ C15_DateNumber(r[P_from]) = C27_QuarterStart(y, k)
  /\ C15_DateNumber(r[P_to]) = C27_QuarterEnd(y, k)

C27_IsPreviousQuarter(r) ==
  LET k == C27_QuarterOf(today.month) IN
  IF k = 1 THEN C27_IsQuarter(r, today.year - 1, 4) ELSE C27_IsQuarter(r, today.year, k - 1)

C27_IsCurrentQuarter(r) == C27_IsQuarter(r, today.year, C27_QuarterOf(today.month))

C27_MonthOf(n) == (n \div 100) % 100

C27_WithinOneQuarter(r) ==
  /\ C15_DateNumber(r[P_from]) \div 10000 = C15_DateNumber(r[P_to]) \div 10000
  /\ C27_QuarterOf(C27_MonthOf(C15_DateNumber(r[P_from])))
       = C27_QuarterOf(C27_MonthOf(C15_DateNumber(r[P_to])))

C27_Ordered(r) == C15_DateNumber(r[P_from]) <= C15_DateNumber(r[P_to])

C27_HasYearOrMonthPhrase(text) ==
  \E k \in {K_last_year, K_this_year, K_last_month, K_this_month} : Contains(Lower(text), k)

C27_QuarterOfEveryText ==
  C27_Called =>
    LET r == outcome.value
        q == Lower(req.text)
    IN /\ Contains(q, K_last_quarter) => C27_IsPreviousQuarter(r)
       /\ (Contains(q, K_quarter) /\ ~Contains(q, K_last_quarter)) => C27_IsCurrentQuarter(r)
       /\ r # EmptyParams => C27_Ordered(r) /\ C27_WithinOneQuarter(r)

\* C27 amended: the quarter is returned for a text without a year or month
\* phrase; every non-empty result is ordered, and the result of a month or
\* quarter phrase lies within one quarter, that of a year phrase within one
\* year.
C27_QuarterUnlessYearOrMonth ==
  C27_Called =>
    LET r == outcome.value
        q == Lower(req.text)
    IN /\ ~C27_HasYearOrMonthPhrase(req.text) =>
            /\ Contains(q, K_last_quarter) => C27_IsPreviousQuarter(r)
            /\ (Contains(q, K_quarter) /\ ~Contains(q, K_last_quarter))
                 => C27_IsCurrentQuarter(r)
       /\ r # EmptyParams =>
            /\ C27_Ordered(r)
            /\ C15_DateNumber(r[P_from]) \div 10000 = C15_DateNumber(r[P_to]) \div 10000
            /\ ~(Contains(q, K_last_year) \/ Contains(q, K_this_year)) => C27_WithinOneQuarter(r)

\* "last quarter" asked in the first quarter of a year: the fourth quarter of
\* the year before
C27_Witness ==
  /\ C27_Called /\ Contains(Lower(req.text), K_last_quarter)
  /\ ~C27_HasYearOrMonthPhrase(req.text)
  /\ today.month = 2
  /\ C27_IsQuarter(outcome.value, today.year - 1, 4)

\* C28: every template name classify returns with tool sql is a key of
\* TEMPLATES, so that on the free-text path StructuredDataAgent.query, built
\* with the default registry, never fails for an unknown template.
C28_SqlNamesRegistered ==
  entry = "classify" =>
    \A i \in DOMAIN results :
      results[i].tool = "sql" =>
        /\ results[i].name \in DOMAIN TEMPLATES
        \* query raises ValueError exactly for a name outside its registry
        /\ results[i].name \in DOMAIN templates

\* the same seen from the caller of the orchestrator: with the default
\* registry no free-text request meets the unknown-template failure
C28_TextPathKnowsTemplate ==
  (entry \in OrchEntries /\ req.kind = "str" /\ templates = TEMPLATES)
    => /\ sqlError # "unknown_template"
       /\ swallowed # "ValueError"

\* a text classified to the on-time template
C28_Witness ==
  /\ entry = "classify" /\ Done
  /\ results[1] = [tool |-> "sql", name |-> "on_time_rate", params |-> EmptyParams]
  /\ Contains(Lower(req.text), K_sla)

\* C29: in ODBC mode run_sql_params replaces every @name of the statement by
\* a positional ? and binds exactly one value per marker, in textual order:
\* the number of bound values equals the number of ? markers, also when a
\* placeholder occurs twice and when the parameter map has no entry for a
\* placeholder.
C29_Executed ==
  /\ entry \in {"query", "run_sql_params"} /\ mode = "odbc" /\ odbcExecs > 0
  /\ pc \notin {"start", "query", "run_sql_params"}

C29_Markers(sql) == {i \in 1..Len(sql) : sql[i] = "?"}

\* the k-th placeholder of the statement, by its position
C29_Placeholders(sql) ==
  {i \in 1..(Len(sql) - 1) : sql[i] = "@" /\ sql[i + 1] \in WordChars}

C29_OneValuePerMarker ==
  C29_Executed =>
    LET sql == execArgs[1]
        sent_sql == odbcArgs[1]
        values == odbcArgs[2]
    IN /\ C29_Placeholders(sent_sql) = {}
       /\ Cardinality(C29_Markers(sent_sql))
            = Cardinality(C29_Markers(sql)) + Cardinality(C29_Placeholders(sql))
       /\ Len(values) = Cardinality(C29_Markers(sent_sql))

\* the same for the calls whose parameter map has an entry for every
\* placeholder of the statement
C29_OneValuePerMarkerWhenComplete ==
  (C29_Executed
     /\ \A k \in DOMAIN _iter_param_names(execArgs[1], 1) :
          _iter_param_names(execArgs[1], 1)[k] \in DOMAIN execArgs[2])
    => /\ Len(odbcArgs[2]) = Cardinality(C29_Markers(odbcArgs[1]))
       /\ \A k \in DOMAIN odbcArgs[2] :
            odbcArgs[2][k] = execArgs[2][_iter_param_names(execArgs[1], 1)[k]]

\* C30: with no graph service configured, a text the classifier routes to
\* the graph tool is answered by the document-search client, called with
\* the text as it came: the missing service raises nothing, no request goes
\* to the directory search, and the envelope names ai_search.  The only
\* errors left are those of the search backend itself.
C30_GraphUnavailable ==
  /\ entry \in OrchEntries /\ req.kind = "str"
  /\ ~hasGraph
  /\ classify(req.text).tool = "graph"

C30_SearchFailed ==
  /\ statuses # <<>>
  /\ statuses[Len(statuses)] # 200 \/ respBody < 0

C30_GraphWithoutServiceIsSearched ==
  C30_GraphUnavailable =>
    /\ posts["graph"] = 0 /\ posts["sql"] = 0 /\ execCalls = 0
    /\ swallowed = "none"
    /\ \A i \in DOMAIN agentCalls : agentCalls[i] = "rag"
    /\ \A i \in DOMAIN sent : sent[i].to = "rag" /\ sent[i].text = req.text
    /\ Done =>
         /\ agentCalls = <<"rag">>
         /\ Len(sent) >= 1
         /\ outcome.kind = "raise" => C30_SearchFailed
         /\ outcome.kind = "return" =>
              /\ ~C30_SearchFailed
              /\ entry = "handle_with_citations" => outcome.value.tool = "ai_search"
              /\ entry = "handle" => outcome.value = Items("rag", respBody)

\* a text about email, classified graph and holding a directory word,
\* answered with passages while no graph service exists
C30_Witness ==
  /\ C30_GraphUnavailable /\ _needs_graph(req.text)
  /\ entry = "handle_with_citations" /\ Done
  /\ outcome.kind = "return" /\ outcome.value.tool = "ai_search"
  /\ Len(outcome.value.result) > 0
  /\ sent[Len(sent)].text = req.text

====
